---- MODULE Spec2Model ----
(***************************************************************************)
(* Levial voice agent: ConversationOrchestrator.run_loop                   *)
(* (src/levial/orchestrator.py) together with the threads that run beside  *)
(* it: shutdown(), trigger_wake(), update_config(), the wake-word          *)
(* callback, the speech detector, the playback process and the clock.      *)
(*                                                                         *)
(* run_loop is one sequential task; its position is pc.  A step ends where *)
(* the code next reads a flag another thread sets, so that a setter can    *)
(* fall between a check and the statement the check guards.                *)
(***************************************************************************)
EXTENDS Integers, Sequences, FiniteSets, TLC

(***************************************************************************)
(* Bounds of the model.                                                    *)
(***************************************************************************)
\* IDLE cycles (iterations of the outer while loop) that may be started
MaxCycles == 2
\* a further cycle is started only while history holds at most this many entries
MaxHistory == 3
\* external outcomes of the session that leave the plain turn: a failing or
\* empty recording, transcription, query or synthesis, a reply that is neither
\* plain text nor a tool call that succeeds, a call of update_config
MaxRare == 1
\* seconds one tick of the model's clock stands for
TickSeconds == 20
\* chunks the audio callback delivers to one recording
MaxFrames == 3
\* calls of extract_and_update_knowledge in one run of the profile model
MaxExtractions == 2
\* clock ticks in one run of the model of the IDLE wait
MaxTicks == 3
\* the largest max_history_turns of the archived voice loop's profile
MaxKept == 3
\* utterances in one run of the archived voice loop
MaxUtterances == 3
\* turns whose interactions are added to the memory store
MaxTurnsStored == 2
\* calls of get_relevant_context in one run of the context model
MaxCalls == 2
\* the last value of the wall clock there, in half minutes
MaxClock == 2
\* start_agent messages accepted in one run of the server model
MaxStarts == 2
\* listen threads started in one run of the archived agent's model
MaxListens == 3

(***************************************************************************)
(* Program constants.                                                      *)
(***************************************************************************)
\* max_turns = 5
max_turns == 5
\* if idle_time > 30: # 30s minimum idle
MinIdleSeconds == 30
\* self.silence_duration = 1.5, in tenths of a second
DefaultSilence == 15
\* self.proactivity_level = 0.0, in hundredths
DefaultProactivity == 0
\* line 414: silence_duration = 1.0, in tenths of a second
InterruptionSilence == 10
\* archive/voice_loop.py: PROFILE.get("max_history_turns", 6)
DefaultHistoryTurns == 6
\* manager.py 52: n_results=3
n_results == 3

(***************************************************************************)
(* Text.  A model reply is a sequence of tokens: "w" is prose, "{" and "}" *)
(* are braces, "T", "A", "S" are the JSON members "tool": .., "arguments": *)
(* .. and "server": <non-empty>.  A transcript is a sequence of words.     *)
(***************************************************************************)
Members == {"T", "A", "S"}

R_plain == <<"w">>
R_empty == <<>>
R_tool == <<"{", "T", "S", "A", "}">>
R_toolNoServer == <<"w", "{", "T", "A", "}">>
R_noArgs == <<"{", "T", "S", "}">>
R_badJson == <<"{", "w", "}">>

\* what llm.query may return
Replies == {R_plain, R_empty, R_tool, R_toolNoServer, R_noArgs, R_badJson}

\* str.find: index of the first c, 0 when there is none (Python's -1)
Find(s, c) ==
    IF \E i \in 1..Len(s) : s[i] = c
    THEN CHOOSE i \in 1..Len(s) : s[i] = c /\ \A j \in 1..(i - 1) : s[j] # c
    ELSE 0

\* str.rfind: index of the last c, 0 when there is none
RFind(s, c) ==
    IF \E i \in 1..Len(s) : s[i] = c
    THEN CHOOSE i \in 1..Len(s) : s[i] = c /\ \A j \in (i + 1)..Len(s) : s[j] # c
    ELSE 0

\* reply[start_idx:end_idx+1]; empty when end_idx < start_idx
PotentialJson(reply) == SubSeq(reply, Find(reply, "{"), RFind(reply, "}"))

\* json.loads succeeds on one brace pair around members only
JsonParses(s) ==
    /\ Len(s) >= 2
    /\ s[1] = "{"
    /\ s[Len(s)] = "}"
    /\ \A i \in 2..(Len(s) - 1) : s[i] \in Members

\* the keys of the parsed object
JsonKeys(s) == {s[i] : i \in 2..(Len(s) - 1)}

HasBraces(reply) == Find(reply, "{") # 0 /\ RFind(reply, "}") # 0

\* the keys a reply must hold to be a tool call
RequiredKeys == {"T", "A"}

\* a test for the `tool` key alone: C2 fails for it
IsToolCallToolOnly(reply) ==
    /\ HasBraces(reply)
    /\ JsonParses(PotentialJson(reply))
    /\ "T" \in JsonKeys(PotentialJson(reply))

\* lines 301-307: the reply is a tool call
IsToolCall(reply) ==
    /\ HasBraces(reply)
    /\ JsonParses(PotentialJson(reply))
    /\ RequiredKeys \subseteq JsonKeys(PotentialJson(reply))

\* tool_call.get("server") is truthy
HasServer(reply) == "S" \in JsonKeys(PotentialJson(reply))

\* str.lower on one word
Lower(w) ==
    CASE w \in {"Goodbye", "GOODBYE", "goodbye"} -> "goodbye"
      [] w \in {"Thank", "thank"} -> "thank"
      [] w \in {"You", "you"} -> "you"
      [] OTHER -> w

LowerText(t) == [i \in 1..Len(t) |-> Lower(t[i])]

\* phrase in text
Contains(t, phrase) ==
    \E i \in 0..(Len(t) - Len(phrase)) :
        \A j \in 1..Len(phrase) : t[i + j] = phrase[j]

Goodbye == <<"goodbye">>
ThankYou == <<"thank", "you">>

\* the test without lower(): C6 fails for it
HasGoodbyeExact(t) == Contains(t, Goodbye)

\* "goodbye" in transcript.lower()
HasGoodbye(t) == Contains(LowerText(t), Goodbye)
\* "thank you" in int_text.lower()
HasThankYou(t) == Contains(LowerText(t), ThankYou)

\* what asr.transcribe may return for a recorded command
Transcripts == {<<>>, <<"hello">>, <<"ok", "Goodbye">>}
\* what asr.transcribe may return for an interruption
Interruptions == {<<"hello">>, <<"Thank", "you">>, <<"GOODBYE">>}
\* the transcript of a proactive turn
ProactivePrompt == <<"System:", "idle">>

\* the wake-word models' labels
WakeLabels == {"hey_jarvis", "alexa"}
\* "alexa" in detected_wake_word.lower()
IsPauseWord(w) == w = "alexa"

\* update_config arguments: a dict holding any of the two keys
ConfigKeys == {"silence_duration", "proactivity_level"}
SilenceValues == {10, DefaultSilence}
ProactivityValues == {DefaultProactivity, 100}

Ev(s) == [status |-> s, turn |-> 0]
EvThinking(n) == [status |-> "thinking", turn |-> n]
Entry(r, t) == [role |-> r, text |-> t]
ToolOutput(obs) == <<"Tool Output:", obs>>

VARIABLES
    pc,                    \* position of run_loop
    shutdown_event,        \* threading.Event
    wake_event,            \* threading.Event
    detected_wake_word,    \* "None" or a label
    is_proactive_trigger,
    silence_duration,
    proactivity_level,
    config_keys,           \* the keys of the last update_config call in the model of
                           \* the IDLE wait, {} before any
    last_interaction_time,
    now,                   \* time.time()
    history,               \* list of (role, text)
    transcript,            \* local of run_loop
    reply,                 \* local of run_loop: bound is FALSE until assigned
    current_turn,          \* local of run_loop
    current_process,       \* AudioPlayer.current_process
    listener_running,      \* wake listener started and its stream open
    detector_running,      \* speech detector started and its stream open
    speech_detected,       \* SpeechDetector.speech_detected_event
    events,                \* status events since the idle that opened the cycle
    cycles,                \* cycles started
    hist0,                 \* Len(history) when the cycle started
    queries,               \* llm.query calls of line 295 in this cycle
    knowledge_queries,     \* llm.query calls of line 339 in this cycle
    queryFailed,           \* a tool-loop query of this cycle raised
    asrFailed,             \* "no", "command" or "interruption"
    lateShutdown,          \* shutdown was set between line 208 and line 225
    rare,                  \* outcomes counted against MaxRare
    int_text,              \* the interruption transcribed in this cycle, or <<>>
    tool_raises,           \* exceptions of mcp_client.call_tool in this cycle
    tool_calls,            \* calls of mcp_client.call_tool in this cycle
    memory_writes,         \* add_interaction calls of this cycle
    triggered,             \* trigger_wake set the flag since the cycle's `idle`, and
                           \* line 211 has not been reached since
    used_silence,          \* the silence duration of the cycle's last recording, or 0
    recorder,              \* the recording function that is running, or "None"
    rec_pc,                \* its position
    frames,                \* its list of chunks
    audio_queue,           \* chunks the audio callback has put and it has not taken
    stop_event,            \* its stop condition is signalled
    wav,                   \* what it returned
    profile_data,          \* UserProfile.profile_data
    profile_file,          \* the profile as save_profile last wrote it
    extractions,           \* calls of extract_and_update_knowledge so far
    facts0,                \* the facts before the first of these calls
    applied,               \* the facts of the responses of these calls, in order
    last_response,         \* the response of the last call
    knowledge,             \* what the last call returned, <<>> before any
    ext_pc,                \* where the thread of run_loop is in the extraction
    ext_todo,              \* the keys of the response's facts it has yet to assign
    upd_pc,                \* where the server's thread is in update_knowledge
    updates,               \* the argument of that call
    agent_history,         \* VoiceAgent.history of the archived voice loop
    MAX_HISTORY_TURNS,     \* its bound on the entries kept, 0 for none
    untrimmed,             \* every entry appended to agent_history so far
    processed,             \* calls of _process_utterance so far
    memory_store,          \* VectorStore: the interactions added, oldest first
    wall_clock,            \* time.time() of the memory manager, in half minutes
    contexts,              \* the calls of get_relevant_context made: inputs and result
    srv_orchestrator,      \* server.py's global orchestrator: 0 for None, else the
                           \* number of the instance
    orchestrator_running,  \* server.py's flag
    alive,                 \* the instances whose thread has not ended
    handler_pc,            \* "starting" between lines 189 and 190, else "idle"
    conn,                  \* where each client's websocket_endpoint is
    active_connections,    \* ConnectionManager.active_connections
    bc_todo,               \* the connections a broadcast has yet to send to
    bc_pc,                 \* "idle", or "sending" while broadcast awaits send_json
    bc_raised,             \* the last broadcast ended by an exception
    is_listening,          \* VoiceAgent.is_listening
    agent_stop_event,      \* VoiceAgent.stop_event
    listen_state           \* where each listen thread started so far is

vars == <<pc, shutdown_event, wake_event, detected_wake_word, is_proactive_trigger,
          silence_duration, proactivity_level, config_keys, last_interaction_time, now,
          history,
          transcript, reply, current_turn, current_process, listener_running,
          detector_running, speech_detected, events, cycles, hist0, queries,
          knowledge_queries, queryFailed, asrFailed, lateShutdown, rare, int_text, tool_raises,
          tool_calls, memory_writes, triggered, used_silence, recorder, rec_pc, frames, audio_queue,
          stop_event, wav, profile_data, profile_file, extractions, facts0, applied,
          last_response, knowledge, ext_pc, ext_todo, upd_pc, updates, agent_history,
          MAX_HISTORY_TURNS, untrimmed, processed, memory_store, wall_clock,
          contexts, srv_orchestrator, orchestrator_running, alive, handler_pc, conn,
          active_connections, bc_todo, bc_pc, bc_raised, is_listening,
          agent_stop_event, listen_state>>

\* groups for UNCHANGED
locals == <<transcript, reply, current_turn>>
config == <<silence_duration, proactivity_level, config_keys>>
clock == <<now, last_interaction_time>>
wake == <<wake_event, detected_wake_word, is_proactive_trigger>>
audio == <<current_process, listener_running, detector_running, speech_detected>>
ghost == <<cycles, hist0, queries, knowledge_queries, queryFailed, asrFailed>>
marks == <<int_text, tool_raises, tool_calls, memory_writes, triggered, used_silence>>
recording == <<recorder, rec_pc, frames, audio_queue, stop_event, wav>>
\* the objects run_loop calls into, each with a specification of its own
threads == <<ext_pc, ext_todo, upd_pc, updates>>
profiles == <<profile_data, profile_file, extractions, facts0, applied, last_response,
              knowledge,
              threads>>
\* the archived voice loop
archive == <<agent_history, MAX_HISTORY_TURNS, untrimmed, processed>>
\* the episodic memory and the context assembled from it
memory == <<memory_store, wall_clock, contexts>>
\* the state added after the archived voice loop
\* server.py: the orchestrator it runs and the connections it broadcasts to
agent == <<srv_orchestrator, orchestrator_running, alive, handler_pc>>
connections == <<conn, active_connections, bc_todo, bc_pc, bc_raised>>
server == <<agent, connections>>
\* the listen threads of the archived voice loop
listeners == <<is_listening, agent_stop_event, listen_state>>
after_server == <<listeners>>
after_memory == <<server, after_server>>
later == <<memory, after_memory>>
apart == <<recording, profiles, archive, later>>
\* the state of run_loop and of the threads around it
orchestrator == <<pc, shutdown_event, wake, config, clock, history, locals, audio,
                  events, ghost, lateShutdown, rare, marks>>

\* a map without keys, and the response fields that are absent or null
EmptyMap == [k \in {} |-> "x"]
Null == "None"

\* a profile no extraction has written to, and a response that was not received
NoProfile == [name |-> Null, facts |-> EmptyMap, interests |-> {}]
NoResponse == [kind |-> "none", name |-> Null,
               facts |-> [shape |-> "object", map |-> EmptyMap],
               interests |-> [shape |-> "array", list |-> <<>>]]

\* run_loop and the threads around it after __init__ (lines 50-100)
OrchestratorInit ==
    /\ pc = "loop_check"
    /\ shutdown_event = FALSE
    /\ wake_event = FALSE
    /\ detected_wake_word = "None"
    /\ is_proactive_trigger = FALSE
    /\ silence_duration = DefaultSilence
    /\ config_keys = {}
    /\ proactivity_level = DefaultProactivity
    /\ last_interaction_time = 0
    /\ now = 0
    /\ history = <<>>
    /\ transcript = <<>>
    /\ reply = [bound |-> FALSE, text |-> <<>>]
    /\ current_turn = 0
    /\ current_process = "None"
    /\ listener_running = FALSE
    /\ detector_running = FALSE
    /\ speech_detected = FALSE
    /\ events = <<>>
    /\ cycles = 0
    /\ hist0 = 0
    /\ queries = 0
    /\ knowledge_queries = 0
    /\ queryFailed = FALSE
    /\ asrFailed = "no"
    /\ lateShutdown = FALSE
    /\ rare = 0
    /\ int_text = <<>>
    /\ tool_raises = 0
    /\ tool_calls = 0
    /\ memory_writes = 0
    /\ triggered = FALSE
    /\ used_silence = 0

\* no recording function is running
RecordingInit ==
    /\ recorder = "None"
    /\ rec_pc = "idle"
    /\ frames = <<>>
    /\ audio_queue = <<>>
    /\ stop_event = FALSE
    /\ wav = [written |-> FALSE, frames |-> <<>>]

\* the profile as it is after loading p
ProfileLoaded(p) ==
    /\ profile_data = p
    /\ profile_file = p
    /\ extractions = 0
    /\ facts0 = p.facts
    /\ applied = <<>>
    /\ last_response = NoResponse
    /\ knowledge = <<>>
    /\ ext_pc = "idle"
    /\ ext_todo = {}
    /\ upd_pc = "idle"
    /\ updates = EmptyMap

\* the memory store is empty, no context was assembled
MemoryInit ==
    /\ memory_store = <<>>
    /\ wall_clock = 0
    /\ contexts = {}

\* the websocket clients
Clients == {"c1", "c2"}

\* server.py 46-75: no orchestrator, no connection
ServerInit ==
    /\ srv_orchestrator = 0
    /\ orchestrator_running = FALSE
    /\ alive = {}
    /\ handler_pc = "idle"
    /\ conn = [c \in Clients |-> "new"]
    /\ active_connections = <<>>
    /\ bc_todo = <<>>
    /\ bc_pc = "idle"
    /\ bc_raised = FALSE

\* archive/voice_loop.py 220-226
ListenInit ==
    /\ is_listening = FALSE
    /\ agent_stop_event = FALSE
    /\ listen_state = <<>>

LaterInit == MemoryInit /\ ServerInit /\ ListenInit

\* the archived voice loop with PROFILE's max_history_turns = n
AgentLoaded(n) ==
    /\ agent_history = <<>>
    /\ MAX_HISTORY_TURNS = n
    /\ untrimmed = <<>>
    /\ processed = 0

Init ==
    /\ OrchestratorInit
    /\ RecordingInit
    /\ ProfileLoaded(NoProfile)
    /\ AgentLoaded(DefaultHistoryTurns)
    /\ LaterInit

\* an outcome that costs k of the session's rare outcomes
Costs(k) == rare' = rare + k /\ rare' <= MaxRare

(***************************************************************************)
(* run_loop, IDLE: lines 171-209.                                          *)
(***************************************************************************)
\* line 171: while not self.shutdown_event.is_set()
LoopCheck ==
    /\ pc = "loop_check"
    /\ IF shutdown_event
       THEN pc' = "done"
       ELSE /\ cycles < MaxCycles
            /\ Len(history) <= MaxHistory
            /\ pc' = "emit_idle"
    /\ UNCHANGED <<shutdown_event, wake, config, clock, history, locals, audio,
                   events, ghost, lateShutdown, rare,
                   marks>>
    /\ UNCHANGED apart

\* lines 173-174: self._emit_status("idle"), the event that opens a cycle
EmitIdle ==
    /\ pc = "emit_idle"
    /\ events' = <<Ev("idle")>>
    /\ cycles' = cycles + 1
    /\ hist0' = Len(history)
    /\ queries' = 0
    /\ knowledge_queries' = 0
    /\ queryFailed' = FALSE
    /\ asrFailed' = "no"
    /\ int_text' = <<>>
    /\ tool_raises' = 0
    /\ tool_calls' = 0
    /\ memory_writes' = 0
    /\ triggered' = FALSE
    /\ used_silence' = 0
    /\ pc' = "clear_wake"
    /\ UNCHANGED <<shutdown_event, wake, config, clock, history, locals, audio,
                   lateShutdown, rare>>
    /\ UNCHANGED apart

\* line 175: self.wake_event.clear()
ClearWake ==
    /\ pc = "clear_wake"
    /\ wake_event' = FALSE
    /\ pc' = "clear_word"
    /\ UNCHANGED <<shutdown_event, detected_wake_word, is_proactive_trigger, config,
                   clock, history, locals, audio, events, ghost, lateShutdown, rare,
                   marks>>
    /\ UNCHANGED apart

\* lines 176-189: the label and the proactive mark are reset, the stream is
\* opened and the wake listener started
StartListener ==
    /\ pc = "clear_word"
    /\ detected_wake_word' = "None"
    /\ is_proactive_trigger' = FALSE
    /\ listener_running' = TRUE
    /\ pc' = "wait_check"
    /\ UNCHANGED <<shutdown_event, wake_event, config, clock, history, locals,
                   current_process, detector_running, speech_detected, events,
                   ghost, lateShutdown, rare,
                   marks>>
    /\ UNCHANGED apart

\* line 192: while not wake_event.is_set() and not shutdown_event.is_set();
\* when the loop is left, line 206 stops the listener and the with block
\* closes the stream
WaitCheck ==
    /\ pc = "wait_check"
    /\ IF wake_event \/ shutdown_event
       THEN listener_running' = FALSE /\ pc' = "post_wait_check"
       ELSE UNCHANGED listener_running /\ pc' = "wait_tick"
    /\ UNCHANGED <<shutdown_event, wake, config, clock, history, locals,
                   current_process, detector_running, speech_detected, events,
                   ghost, lateShutdown, rare,
                   marks>>
    /\ UNCHANGED apart

\* the check without the test of the level: C21 fails for it
ProactiveArmedAnyLevel == now - last_interaction_time > MinIdleSeconds

\* lines 196-198: the proactivity check may draw
ProactiveArmed ==
    /\ proactivity_level > 0
    /\ now - last_interaction_time > MinIdleSeconds

\* lines 193-204: one poll tick: the wait times out or is woken, then the
\* proactivity check; draw is random.random() < proactivity_level * 0.01
WaitTick ==
    /\ pc = "wait_tick"
    /\ \E draw \in BOOLEAN :
        IF ProactiveArmed /\ draw
        THEN is_proactive_trigger' = TRUE /\ wake_event' = TRUE
        ELSE UNCHANGED <<is_proactive_trigger, wake_event>>
    /\ pc' = "wait_check"
    /\ UNCHANGED <<shutdown_event, detected_wake_word, config, clock, history,
                   locals, audio, events, ghost, lateShutdown, rare,
                   marks>>
    /\ UNCHANGED apart

\* the wait left without the test of line 208: C7 fails for it
PostWaitTargetNoCheck(shut) == "dispatch"

\* lines 208-209: if self.shutdown_event.is_set(): break
PostWaitTarget(shut) == IF shut THEN "done" ELSE "dispatch"

PostWaitCheck ==
    /\ pc = "post_wait_check"
    /\ pc' = PostWaitTarget(shutdown_event)
    /\ UNCHANGED <<shutdown_event, wake, config, clock, history, locals, audio,
                   events, ghost, lateShutdown, rare,
                   marks>>
    /\ UNCHANGED apart

(***************************************************************************)
(* run_loop, LISTENING: lines 211-284.                                     *)
(***************************************************************************)
\* the proactive flag ignored: every cycle listens and records
DispatchListens ==
    /\ pc = "dispatch"
    /\ IF detected_wake_word # "None" /\ IsPauseWord(detected_wake_word)
       THEN /\ events' = Append(events, Ev("idle"))
            /\ pc' = "loop_check"
       ELSE /\ events' = Append(events, Ev("listening"))
            /\ pc' = "record"
    /\ triggered' = FALSE
    /\ UNCHANGED <<shutdown_event, wake, config, clock, history, locals, audio,
                   ghost, lateShutdown, rare,
                   int_text, tool_raises, tool_calls, memory_writes, used_silence>>
    /\ UNCHANGED apart

\* lines 211-225: proactive turn, pause word, or LISTENING
Dispatch ==
    /\ pc = "dispatch"
    /\ IF is_proactive_trigger
       THEN /\ events' = Append(events, Ev("wake_word_detected"))
            /\ pc' = "proactive"
       ELSE IF detected_wake_word # "None" /\ IsPauseWord(detected_wake_word)
       THEN /\ events' = Append(events, Ev("idle"))
            /\ pc' = "loop_check"
       ELSE /\ events' = Append(events, Ev("listening"))
            /\ pc' = "record"
    /\ triggered' = FALSE
    /\ UNCHANGED <<shutdown_event, wake, config, clock, history, locals, audio,
                   ghost, lateShutdown, rare,
                   int_text, tool_raises, tool_calls, memory_writes, used_silence>>
    /\ UNCHANGED apart

\* the audio_level events of a recording: one stands for the run of them
AudioLevels(captured) == IF captured THEN <<Ev("audio_level")>> ELSE <<>>

\* AudioCapture.record_until_silence: no file when no frame was captured
RecordUntilSilence(captured) == captured

\* a retry of the recording in place of `continue`: C4 fails for it
RetryAfterNoAudio == "dispatch"

\* lines 250-252: `continue` after a recording that gave no file
AfterNoAudio == "loop_check"

\* lines 239-252: the blocking recording, then the shutdown check
Record ==
    /\ pc = "record"
    /\ \E captured \in BOOLEAN :
        /\ events' = events \o AudioLevels(captured)
        /\ Costs(IF captured THEN 0 ELSE 1)
        /\ pc' = IF shutdown_event THEN "done"
                 ELSE IF ~RecordUntilSilence(captured) THEN AfterNoAudio
                 ELSE "transcribe"
    /\ used_silence' = silence_duration
    /\ UNCHANGED <<shutdown_event, wake, config, clock, history, locals, audio,
                   ghost, lateShutdown, int_text, tool_raises, tool_calls,
                   memory_writes, triggered>>
    /\ UNCHANGED apart

\* the transcript taken without the test of lines 260-262
CheckTranscriptUntested(t) ==
    /\ transcript' = t
    /\ events' = Append(events, Ev("transcript"))
    /\ IF HasGoodbye(t)
       THEN /\ pc' = "done"
            /\ UNCHANGED <<history, current_turn>>
       ELSE /\ history' = Append(history, Entry("user", t))
            /\ current_turn' = 0
            /\ pc' = "tool_check"

\* lines 260-284: empty transcript, termination phrase, or the turn begins
CheckTranscript(t) ==
    /\ transcript' = t
    /\ IF t = <<>>
       THEN /\ pc' = "loop_check"
            /\ UNCHANGED <<events, history, current_turn>>
       ELSE /\ events' = Append(events, Ev("transcript"))
            /\ IF HasGoodbye(t)
               THEN /\ pc' = "done"
                    /\ UNCHANGED <<history, current_turn>>
               ELSE /\ history' = Append(history, Entry("user", t))
                    /\ current_turn' = 0
                    /\ pc' = "tool_check"

\* lines 254-258: asr.transcribe returns a text or raises CalledProcessError,
\* which line 256 catches
Transcribe ==
    /\ pc = "transcribe"
    /\ \/ \E t \in Transcripts :
            /\ CheckTranscript(t)
            /\ Costs(IF t = <<>> THEN 1 ELSE 0)
            /\ UNCHANGED asrFailed
       \/ /\ asrFailed' = "command"
          /\ Costs(1)
          /\ pc' = "loop_check"
          /\ UNCHANGED <<transcript, events, history, current_turn>>
    /\ UNCHANGED <<shutdown_event, wake, config, clock, reply, audio, cycles, hist0,
                   queries, knowledge_queries, queryFailed, lateShutdown,
                   marks>>
    /\ UNCHANGED apart

\* line 216 and lines 260-284: the proactive turn has its transcript made up
Proactive ==
    /\ pc = "proactive"
    /\ CheckTranscript(ProactivePrompt)
    /\ UNCHANGED <<shutdown_event, wake, config, clock, reply, audio, ghost,
                   lateShutdown, rare,
                   marks>>
    /\ UNCHANGED apart

(***************************************************************************)
(* run_loop, THINKING: the tool-call loop, lines 283-352.                  *)
(***************************************************************************)
\* the loop test off by one: C1 fails for it
ToolLoopOffByOne(turn, shut) == turn <= max_turns /\ ~shut

\* line 286: while current_turn < max_turns and not shutdown_event.is_set()
ToolLoopContinues(turn, shut) == turn < max_turns /\ ~shut

\* line 314: call_tool is called for a reply that names a server, and it
\* returns or raises
CallOutcomes(r) == IF HasServer(r) THEN BOOLEAN ELSE {FALSE}

\* the exception dropped without a trace: C13 fails for it
ObservationNoError(r, raised) ==
    IF HasServer(r) THEN "result" ELSE "Error: Server name missing."

\* lines 312-320: what the Tool Output entry says
Observation(r, raised) ==
    IF ~HasServer(r) THEN "Error: Server name missing."
    ELSE IF raised THEN "Error: Tool execution failed"
    ELSE "result"

\* memory written for every reply: C15 fails for it
MemoryWritesAlways(final) == 2

\* lines 330-331: add_interaction is called twice for a final reply
MemoryWrites(final) == IF final THEN 2 ELSE 0

\* the two entries in the other order: C14 fails for it
ToolPairReversed(r, obs) ==
    <<Entry("system", ToolOutput(obs)), Entry("assistant", r)>>

\* lines 321-322: the two entries of a tool iteration
ToolPair(r, obs) == <<Entry("assistant", r), Entry("system", ToolOutput(obs))>>

\* a final reply without knowledge extraction: C5 fails for it
FinalEventsResponseOnly == <<Ev("response")>>

\* lines 328-347: the events of a final reply
FinalEvents == <<Ev("response"), Ev("knowledge_update")>>

\* the replies and observations that do not count as rare
ReplyCost(r) == IF r \in {R_plain, R_tool} THEN 0 ELSE 1

RaiseCost(raised) == IF raised THEN 1 ELSE 0

\* a call without a server name is answered without calling the tool
InvocationsAlways(r) == 1

\* calls of mcp_client.call_tool made for a tool-call reply
Invocations(r) == IF HasServer(r) THEN 1 ELSE 0

\* lines 286-352: one pass of the loop: the test, `thinking`, llm.query, which
\* returns or raises CalledProcessError, then the tool call (lines 307-323) or
\* the final answer (lines 327-352), whose knowledge extraction queries the
\* model once more (manager.py line 94) and keeps what that query raises
ToolIteration ==
    /\ pc = "tool_check"
    /\ IF ~ToolLoopContinues(current_turn, shutdown_event)
       THEN /\ pc' = "speak_check"
            /\ UNCHANGED <<current_turn, events, queries, knowledge_queries,
                           queryFailed, reply, history, rare, tool_raises,
                           tool_calls, memory_writes>>
       ELSE /\ current_turn' = current_turn + 1
            /\ queries' = queries + 1
            /\ \/ /\ queryFailed' = TRUE
                  /\ Costs(1)
                  /\ events' = Append(events, EvThinking(current_turn + 1))
                  /\ pc' = "speak_check"
                  /\ UNCHANGED <<reply, history, knowledge_queries, tool_raises,
                                 tool_calls, memory_writes>>
               \/ \E r \in Replies :
                    /\ reply' = [bound |-> TRUE, text |-> r]
                    /\ UNCHANGED queryFailed
                    /\ IF IsToolCall(r)
                       THEN /\ \E raised \in CallOutcomes(r) :
                                /\ history' =
                                       history \o ToolPair(r, Observation(r, raised))
                                /\ tool_raises' = tool_raises + RaiseCost(raised)
                                /\ tool_calls' = tool_calls + Invocations(r)
                                /\ Costs(ReplyCost(r) + RaiseCost(raised))
                            /\ memory_writes' = memory_writes + MemoryWrites(FALSE)
                            /\ events' = Append(events, EvThinking(current_turn + 1))
                            /\ UNCHANGED knowledge_queries
                            /\ pc' = "tool_check"
                       ELSE /\ events' = Append(events, EvThinking(current_turn + 1))
                                            \o FinalEvents
                            /\ history' = Append(history, Entry("assistant", r))
                            /\ knowledge_queries' = knowledge_queries + 1
                            /\ memory_writes' = memory_writes + MemoryWrites(TRUE)
                            /\ UNCHANGED <<tool_raises, tool_calls>>
                            /\ Costs(ReplyCost(r))
                            /\ pc' = "speak_check"
    /\ UNCHANGED <<shutdown_event, wake, config, clock, transcript, audio, cycles,
                   hist0, asrFailed, lateShutdown, int_text, triggered,
                   used_silence>>
    /\ UNCHANGED apart

(***************************************************************************)
(* run_loop, SPEAKING: lines 354-453.                                      *)
(***************************************************************************)
\* lines 355-381: `if reply:` reads a local that no statement of this cycle
\* may have assigned; unassigned it raises UnboundLocalError.  Then synthesize
\* and play: on success the try statement is left and the cycle is over; the
\* handler of line 367 holds all the rest, and starts the speech detector
Speak ==
    /\ pc = "speak_check"
    /\ IF ~reply.bound
       THEN /\ pc' = "crashed"
            /\ UNCHANGED <<events, history, last_interaction_time, current_process,
                           detector_running, speech_detected, rare>>
       ELSE IF reply.text = <<>>
       THEN /\ pc' = "loop_check"
            /\ UNCHANGED <<events, history, last_interaction_time, current_process,
                           detector_running, speech_detected, rare>>
       ELSE /\ events' = Append(events, Ev("speaking"))
            /\ history' = Append(history, Entry("agent", reply.text))
            /\ last_interaction_time' = now
            /\ \/ /\ current_process' = "running"
                  /\ pc' = "loop_check"
                  /\ UNCHANGED <<detector_running, speech_detected, rare>>
               \/ /\ Costs(1)
                  /\ detector_running' = TRUE
                  /\ speech_detected' = FALSE
                  /\ pc' = "barge_wait"
                  /\ UNCHANGED current_process
    /\ UNCHANGED <<shutdown_event, wake, config, now, locals, listener_running,
                   ghost, lateShutdown,
                   marks>>
    /\ UNCHANGED apart

\* lines 384-404: while the player's process runs, shutdown or speech stops
\* it; then the detector is stopped and the stream closed
BargeWait ==
    /\ pc = "barge_wait"
    /\ IF current_process = "running"
       THEN /\ shutdown_event \/ speech_detected
            /\ current_process' = "None"
       ELSE UNCHANGED current_process
    /\ detector_running' = FALSE
    /\ pc' = IF shutdown_event THEN "done"
             ELSE IF current_process' = "None" /\ speech_detected THEN "barge_record"
             ELSE "loop_check"
    /\ UNCHANGED <<shutdown_event, wake, config, clock, history, locals,
                   listener_running, speech_detected, events, ghost, lateShutdown,
                   rare,
                   marks>>
    /\ UNCHANGED apart

\* lines 418-432: the recording loop runs after the with block of line 380
\* has closed the stream, so no chunk arrives any more: it ends when the
\* shutdown flag is set, or when a chunk left in the queue is handled more
\* than silence_duration (1.0 s) after last_sound_time, which takes a stall
\* of the task
RecordingLoopEnds(shut, stalled) == shut \/ stalled

\* lines 406-450: the interruption is recorded until the loop ends, and
\* saved; asr.transcribe is called inside the handler of line 367, so what it
\* raises leaves run_loop; `break` leaves the outer while loop
BargeRecord ==
    /\ pc = "barge_record"
    /\ \E stalled \in BOOLEAN : RecordingLoopEnds(shutdown_event, stalled)
    /\ used_silence' = InterruptionSilence
    /\ \/ /\ Costs(1)
          /\ pc' = "loop_check"
          /\ UNCHANGED <<asrFailed, shutdown_event, int_text>>
       \/ /\ asrFailed' = "interruption"
          /\ pc' = "crashed"
          /\ UNCHANGED <<shutdown_event, rare, int_text>>
       \/ \E t \in Interruptions :
            /\ int_text' = t
            /\ UNCHANGED <<asrFailed, rare>>
            /\ IF HasThankYou(t)
               THEN pc' = "done" /\ UNCHANGED shutdown_event
               ELSE IF HasGoodbye(t)
               THEN pc' = "done" /\ shutdown_event' = TRUE
               ELSE pc' = "loop_check" /\ UNCHANGED shutdown_event
    /\ UNCHANGED <<wake, config, clock, history, locals, audio, events, cycles,
                   hist0, queries, knowledge_queries, queryFailed, lateShutdown,
                   tool_raises, tool_calls, memory_writes, triggered>>
    /\ UNCHANGED apart

(***************************************************************************)
(* The other threads.                                                      *)
(***************************************************************************)
Running == pc \notin {"done", "crashed"}

\* line 100: InputListener's callback, and the server's stop_agent
Shutdown ==
    /\ ~shutdown_event
    /\ Running
    /\ shutdown_event' = TRUE
    /\ lateShutdown' = (pc = "dispatch")
    /\ UNCHANGED <<pc, wake, config, clock, history, locals, audio, events, ghost,
                   rare,
                   marks>>
    /\ UNCHANGED apart

\* the positions from line 174 to line 211, where a wake-up is waited for
IdlePositions ==
    {"loop_check", "emit_idle", "clear_wake", "clear_word", "wait_check",
     "wait_tick", "post_wait_check", "dispatch"}

\* the positions after the `idle` of line 174 and before line 211
WaitPositions == IdlePositions \ {"loop_check", "emit_idle"}

\* lines 123-129.  Nothing reads the flag or the label between line 225 and
\* line 175: a call during a turn is a call at the loop test that follows it
TriggerWake ==
    /\ ~wake_event
    /\ pc \in IdlePositions
    /\ detected_wake_word' = "Manual Trigger"
    /\ wake_event' = TRUE
    /\ triggered' = (triggered \/ (pc \in WaitPositions /\ ~shutdown_event))
    /\ UNCHANGED <<pc, shutdown_event, is_proactive_trigger, config, clock, history,
                   locals, audio, events, ghost, lateShutdown, rare, int_text,
                   tool_raises, tool_calls, memory_writes, used_silence>>
    /\ UNCHANGED apart

\* lines 79-81: the wake listener reports a label while it runs
WakeCallback ==
    /\ listener_running
    /\ \E label \in WakeLabels :
        /\ detected_wake_word' = label
        /\ wake_event' = TRUE
    /\ UNCHANGED <<pc, shutdown_event, is_proactive_trigger, config, clock, history,
                   locals, audio, events, ghost, lateShutdown, rare,
                   marks>>
    /\ UNCHANGED apart

\* lines 114-121
UpdateConfig ==
    /\ Running
    /\ \E keys \in SUBSET ConfigKeys :
        /\ IF "silence_duration" \in keys
           THEN \E s \in SilenceValues : silence_duration' = s
           ELSE UNCHANGED silence_duration
        /\ IF "proactivity_level" \in keys
           THEN \E p \in ProactivityValues : proactivity_level' = p
           ELSE UNCHANGED proactivity_level
    /\ Costs(1)
    /\ UNCHANGED config_keys
    /\ UNCHANGED <<pc, shutdown_event, wake, clock, history, locals, audio, events,
                   ghost, lateShutdown,
                   marks>>
    /\ UNCHANGED apart

\* time.time() advances.  The clock decides a branch only at line 198, under
\* the test of line 196: a tick is taken right before that read, and no more
\* once the idle time is over the threshold
Tick ==
    /\ pc = "wait_tick"
    /\ proactivity_level > 0
    /\ now - last_interaction_time <= MinIdleSeconds
    /\ now' = now + TickSeconds
    /\ UNCHANGED <<pc, shutdown_event, wake, config, last_interaction_time, history,
                   locals, audio, events, ghost, lateShutdown, rare,
                   marks>>
    /\ UNCHANGED apart

\* the player's process ends by itself.  Only line 384 polls the process: an
\* end before that line is reached is an end right before the poll
PlaybackEnds ==
    /\ pc = "barge_wait"
    /\ current_process = "running"
    /\ current_process' = "finished"
    /\ UNCHANGED <<pc, shutdown_event, wake, config, clock, history, locals,
                   listener_running, detector_running, speech_detected, events,
                   ghost, lateShutdown, rare,
                   marks>>
    /\ UNCHANGED apart

\* the speech detector sees the first frame over the threshold
SpeechStarts ==
    /\ detector_running
    /\ ~speech_detected
    /\ speech_detected' = TRUE
    /\ UNCHANGED <<pc, shutdown_event, wake, config, clock, history, locals,
                   current_process, listener_running, detector_running, events,
                   ghost, lateShutdown, rare,
                   marks>>
    /\ UNCHANGED apart

(***************************************************************************)
(* Specifications.                                                         *)
(***************************************************************************)
\* the steps of run_loop
RunLoop ==
    \/ LoopCheck \/ EmitIdle \/ ClearWake \/ StartListener \/ WaitCheck
    \/ WaitTick \/ PostWaitCheck \/ Dispatch \/ Record \/ Transcribe
    \/ Proactive \/ ToolIteration \/ Speak \/ BargeWait \/ BargeRecord

\* the steps of the other threads
Environment ==
    \/ Shutdown \/ TriggerWake \/ WakeCallback \/ UpdateConfig \/ Tick
    \/ PlaybackEnds \/ SpeechStarts

Next == RunLoop \/ Environment

Spec == Init /\ [][Next]_vars

\* run_loop is a running task: a step it can take is taken
FairSpec == Init /\ [][Next]_vars /\ WF_vars(RunLoop)

(***************************************************************************)
(* What the properties below read from a state.                            *)
(***************************************************************************)
\* the statuses of the cycle's events, in order
Statuses == [i \in 1..Len(events) |-> events[i].status]

\* the `thinking` events of the cycle
ThinkingEvents == SelectSeq(events, LAMBDA e : e.status = "thinking")

\* the entries the cycle added to history after its user entry
TurnEntries == SubSeq(history, hist0 + 2, Len(history))

\* replies that hold a JSON object with both keys, and replies that hold none:
\* no braces, nothing at all, a parsed object without `arguments`, text that
\* does not parse
ToolCallReplies == {R_tool, R_toolNoServer}
NonToolReplies == {R_plain, R_empty, R_noArgs, R_badJson}

\* the first reply of the cycle's turn is one of S
FirstReplyIn(S) ==
    /\ Len(history) >= hist0 + 2
    /\ history[hist0 + 2].role = "assistant"
    /\ history[hist0 + 2].text \in S

\* the tool-call loop has been left and line 355 is next
LoopStopped == pc = "speak_check"

\* every query of the turn returned, and returned a tool call
EveryReplyToolCall ==
    /\ queries >= 1
    /\ ~queryFailed
    /\ reply.text \in ToolCallReplies
    /\ \A i \in 1..Len(TurnEntries) :
        TurnEntries[i].role = "assistant" => TurnEntries[i].text \in ToolCallReplies

\* the turn added five (assistant reply, system Tool Output) pairs and no more
FivePairs ==
    /\ Len(TurnEntries) = 10
    /\ \A i \in 1..5 :
        /\ TurnEntries[2 * i - 1].role = "assistant"
        /\ TurnEntries[2 * i - 1].text \in ToolCallReplies
        /\ TurnEntries[2 * i].role = "system"
        /\ Head(TurnEntries[2 * i].text) = "Tool Output:"

(***************************************************************************)
(* C1.                                                                     *)
(***************************************************************************)
\* C1 as stated: when the tool-call loop has stopped and every reply of the
\* turn was a well-formed tool call, exactly 5 queries were made and the turn
\* added exactly 5 (assistant, Tool Output) pairs after its user entry.
C1_AsStated ==
    (LoopStopped /\ EveryReplyToolCall) => (queries = 5 /\ FivePairs)

\* C1, amended: when the tool-call loop has stopped with the shutdown flag
\* unset, no query of the turn raised and every reply was a well-formed tool
\* call, exactly 5 queries were made, none of them for knowledge extraction,
\* and the turn added exactly 5 (assistant, Tool Output) pairs.
C1_BudgetExhausted ==
    (LoopStopped /\ EveryReplyToolCall /\ ~shutdown_event)
        => (queries = 5 /\ knowledge_queries = 0 /\ FivePairs)

\* a turn of five tool calls has left the loop
C1_Witness ==
    LoopStopped /\ EveryReplyToolCall /\ ~shutdown_event /\ queries = 5

(***************************************************************************)
(* C2.                                                                     *)
(***************************************************************************)
\* C2 as stated: when the first reply of a turn holds no JSON object with both
\* keys, the loop has ended in its first iteration, one model query was made
\* in the turn and one `thinking` event, of turn 1, was emitted.
C2_AsStated ==
    FirstReplyIn(NonToolReplies)
        => /\ pc # "tool_check"
           /\ queries + knowledge_queries = 1
           /\ ThinkingEvents = <<EvThinking(1)>>

\* C2, amended: when the first reply of a turn holds no JSON object with both
\* keys, the loop has ended in its first iteration: it made one query for a
\* reply, knowledge extraction made one more, and one `thinking` event, of
\* turn 1, was emitted.
C2_FirstIteration ==
    FirstReplyIn(NonToolReplies)
        => /\ pc # "tool_check"
           /\ queries = 1
           /\ knowledge_queries = 1
           /\ ThinkingEvents = <<EvThinking(1)>>

\* the loop was left on a parsed object without `arguments`
C2_Witness == LoopStopped /\ FirstReplyIn({R_noArgs}) /\ queries = 1

(***************************************************************************)
(* C3.                                                                     *)
(***************************************************************************)
\* C3: every `speaking` event is preceded by a `thinking` event emitted since
\* the `idle` that opened the cycle.
C3_ThinkingBeforeSpeaking ==
    \A i \in 1..Len(events) :
        events[i].status = "speaking"
            => \E j \in 1..(i - 1) : events[j].status = "thinking"

(***************************************************************************)
(* C4.                                                                     *)
(***************************************************************************)
\* C4: between any two `listening` events there is an `idle` or a `thinking`
\* event: every cycle's events start with `idle`, and within a cycle two
\* `listening` events have one of the two between them.
C4_ListeningSeparated ==
    /\ events # <<>> => Head(events).status = "idle"
    /\ \A i, j \in 1..Len(events) :
        (i < j /\ events[i].status = "listening" /\ events[j].status = "listening")
            => \E k \in (i + 1)..(j - 1) : events[k].status \in {"idle", "thinking"}

\* a second cycle is in LISTENING after a first one that recorded a command
C4_Witness ==
    /\ cycles = 2
    /\ Statuses = <<"idle", "listening">>
    /\ history # <<>>
    /\ history[1] = Entry("user", <<"hello">>)

(***************************************************************************)
(* C5.                                                                     *)
(***************************************************************************)
\* replies that are plain text: not empty and no tool call
PlainReplies == {R_plain, R_noArgs, R_badJson}

\* the cycle's statuses from its `transcript` event on
StatusesFromTranscript ==
    IF Find(Statuses, "transcript") = 0
    THEN <<>>
    ELSE SubSeq(Statuses, Find(Statuses, "transcript"), Len(Statuses))

\* the step emits an event after a `speaking` event
EmitsAfterSpeaking ==
    /\ events # <<>>
    /\ events[Len(events)].status = "speaking"
    /\ events' # events

\* C5 as stated: in a turn whose first reply is plain text and not empty, once
\* line 355 has been passed the events from `transcript` on are `transcript`,
\* `thinking` of turn 1, `response`, `speaking`.
C5_AsStated ==
    (FirstReplyIn(PlainReplies) /\ ~LoopStopped)
        => /\ ThinkingEvents = <<EvThinking(1)>>
           /\ StatusesFromTranscript =
                  <<"transcript", "thinking", "response", "speaking">>

\* C5, amended: in a turn whose first reply is plain text and not empty, the
\* events from `transcript` on are `transcript`, `thinking` of turn 1,
\* `response`, `knowledge_update` and, once line 355 has been passed,
\* `speaking`; the event that follows a `speaking` event, if there is one, is
\* the `idle` that opens the next cycle.
C5_EventOrder ==
    /\ [](FirstReplyIn(PlainReplies)
            => /\ ThinkingEvents = <<EvThinking(1)>>
               /\ StatusesFromTranscript =
                      IF LoopStopped
                      THEN <<"transcript", "thinking", "response", "knowledge_update">>
                      ELSE <<"transcript", "thinking", "response", "knowledge_update",
                             "speaking">>)
    /\ [][EmitsAfterSpeaking => events' = <<Ev("idle")>>]_vars

\* a plain reply has been spoken after a recorded command
C5_Witness ==
    /\ pc = "loop_check"
    /\ FirstReplyIn({R_plain})
    /\ Statuses = <<"idle", "listening", "audio_level", "transcript", "thinking",
                    "response", "knowledge_update", "speaking">>

(***************************************************************************)
(* C6.                                                                     *)
(***************************************************************************)
\* the transcripts that hold the termination phrase, in any case
GoodbyeTranscripts == {<<"ok", "Goodbye">>}

\* C6: once a transcript with the termination phrase has been received, the
\* run loop has ended, and the cycle emitted no `thinking` event after its
\* `transcript` event, made no model query and added nothing to history.
C6_GoodbyeEndsRun ==
    transcript \in GoodbyeTranscripts
        => /\ pc = "done"
           /\ events[Len(events)].status = "transcript"
           /\ ThinkingEvents = <<>>
           /\ queries + knowledge_queries = 0
           /\ Len(history) = hist0

\* the phrase ended a session whose first turn had filled history
C6_Witness ==
    /\ transcript \in GoodbyeTranscripts
    /\ pc = "done"
    /\ cycles = 2
    /\ hist0 = 3

(***************************************************************************)
(* C7.                                                                     *)
(***************************************************************************)
\* run_loop has returned or raised
Terminated == pc \in {"done", "crashed"}

\* the step emits a `listening` event
ListeningEmitted ==
    /\ events' # events
    /\ events'[Len(events')].status = "listening"

\* C7 as stated, its safety part: once the shutdown flag is set it stays set
\* and no `listening` event is emitted.
C7_AsStated ==
    [][shutdown_event => (shutdown_event' /\ ~ListeningEmitted)]_vars

\* C7, amended: once the shutdown flag is set it stays set and run_loop
\* eventually terminates; no `listening` event is emitted after the flag is
\* set unless the flag was set between the test of line 208 and line 225.
C7_ShutdownTerminates ==
    /\ [][shutdown_event => shutdown_event']_vars
    /\ [][(shutdown_event /\ ~lateShutdown) => ~ListeningEmitted]_vars
    /\ shutdown_event ~> Terminated

\* the flag was set between line 208 and line 225 and run_loop has returned
C7_Witness == shutdown_event /\ lateShutdown /\ pc = "done"

(***************************************************************************)
(* C8.                                                                     *)
(***************************************************************************)
\* C8: after a query of the tool-call loop has raised, the cycle emits no
\* `speaking` event and run_loop does not end by an exception.
C8_QueryFailureAbandonsTurn ==
    queryFailed
        => /\ pc # "crashed"
           /\ \A i \in 1..Len(events) : events[i].status # "speaking"

(***************************************************************************)
(* C9.                                                                     *)
(***************************************************************************)
\* C9: the step in which a transcription fails, of the command or of an
\* interruption, leaves history as it was and goes to the loop test that
\* opens the next IDLE cycle.
C9_TranscriptionFailureAbandonsTurn ==
    [][(asrFailed = "no" /\ asrFailed' # "no")
          => (pc' = "loop_check" /\ history' = history)]_vars

(***************************************************************************)
(* C10.                                                                    *)
(***************************************************************************)
\* C10: while the playback process runs, the speech detector runs.
C10_MonitoringDuringPlayback ==
    current_process = "running" => detector_running

(***************************************************************************)
(* C11.                                                                    *)
(***************************************************************************)
\* the interruptions that hold the stop-speaking phrase, and the termination
\* phrase
ThankYouTexts == {<<"Thank", "you">>}
GoodbyeTexts == {<<"GOODBYE">>}

\* the step transcribes an interruption
InterruptionTranscribed == int_text = <<>> /\ int_text' # <<>>

\* C11: the step that transcribes an interruption sets the shutdown flag and
\* ends the run loop when the text holds the termination phrase; for any
\* other text, with or without the stop-speaking phrase, it leaves the flag as
\* it was and, the flag unset, goes to the loop test that opens the next IDLE
\* cycle.
C11_InterruptionHandled ==
    [][InterruptionTranscribed
          => IF int_text' \in GoodbyeTexts
             THEN shutdown_event' /\ pc' = "done"
             ELSE /\ shutdown_event' = shutdown_event
                  /\ ~shutdown_event => pc' = "loop_check"]_vars

(***************************************************************************)
(* C12.                                                                    *)
(***************************************************************************)
\* C12: the step taken after the tool-call loop with the shutdown flag set and
\* a reply in hand emits no event, appends nothing to history, and starts
\* neither playback nor barge-in monitoring.
C12_NoSpeakingAfterShutdown ==
    [][(pc = "speak_check" /\ shutdown_event /\ reply.bound /\ pc' # pc)
          => /\ events' = events
             /\ history' = history
             /\ current_process' = current_process
             /\ detector_running' = detector_running]_vars

(***************************************************************************)
(* C13.                                                                    *)
(***************************************************************************)
\* the observation of a tool call that raised
ErrorOutput == <<"Tool Output:", "Error: Tool execution failed">>

\* C13: the step in which the tool-execution call raises appends the pair
\* (assistant reply, system 'Tool Output: Error: ...') to history and goes on
\* to the next test of the tool-call loop.
C13_ToolErrorFolded ==
    [][tool_raises' > tool_raises
          => /\ pc' = "tool_check"
             /\ reply'.text \in ToolCallReplies
             /\ history' = history \o <<Entry("assistant", reply'.text),
                                        Entry("system", ErrorOutput)>>]_vars

\* a tool call has raised and the loop is at its next test
C13_Witness ==
    /\ tool_raises = 1
    /\ pc = "tool_check"
    /\ history[Len(history)] = Entry("system", ErrorOutput)

(***************************************************************************)
(* C14.                                                                    *)
(***************************************************************************)
\* s is a prefix of t
IsPrefix(s, t) == Len(s) <= Len(t) /\ SubSeq(t, 1, Len(s)) = s

\* entry i of history is a Tool Output entry
IsToolOutput(i) ==
    history[i].role = "system" /\ Head(history[i].text) = "Tool Output:"

\* C14: every Tool Output entry of history comes right after an assistant
\* entry that holds a tool call, and history only grows at its end.
C14_ToolOutputFollowsReply ==
    /\ [](\A i \in 1..Len(history) :
            IsToolOutput(i)
                => /\ i > 1
                   /\ history[i - 1].role = "assistant"
                   /\ history[i - 1].text \in ToolCallReplies)
    /\ [][IsPrefix(history, history')]_vars

\* a second turn has appended a Tool Output entry after a first turn's entries
C14_Witness ==
    /\ cycles = 2
    /\ hist0 = 3
    /\ Len(history) = 6
    /\ IsToolOutput(6)

(***************************************************************************)
(* C15.                                                                    *)
(***************************************************************************)
\* the last assistant entry the turn added is a final reply
TurnHasFinalReply ==
    /\ TurnEntries # <<>>
    /\ \E i \in 1..Len(TurnEntries) :
        /\ TurnEntries[i] = Entry("assistant", reply.text)
        /\ reply.text \in NonToolReplies
        /\ \A j \in (i + 1)..Len(TurnEntries) : TurnEntries[j].role # "assistant"

\* C15: add_interaction and knowledge extraction run only in the step that
\* classifies a reply as final; a cycle in which they ran holds a final reply
\* and no failed query, and they ran once (two add_interaction calls, one
\* extraction).
C15_WritesAfterFinalReply ==
    /\ []((memory_writes > 0 \/ knowledge_queries > 0)
            => /\ TurnHasFinalReply
               /\ ~queryFailed
               /\ memory_writes = 2
               /\ knowledge_queries = 1)
    /\ [][(memory_writes' > memory_writes \/ knowledge_queries' > knowledge_queries)
            => /\ reply'.text \in NonToolReplies
               /\ history' = Append(history, Entry("assistant", reply'.text))
               /\ pc' = "speak_check"]_vars

\* a turn wrote to memory after two tool calls
C15_Witness ==
    /\ memory_writes = 2
    /\ queries = 3
    /\ LoopStopped

(***************************************************************************)
(* The recording functions: record_utterance of voice_loop.py, _listen_loop *)
(* of archive/voice_loop.py, and the two recordings of run_loop,            *)
(* record_until_silence (line 239) and the interruption recording (lines    *)
(* 409-436) that ends in save_audio.                                        *)
(***************************************************************************)
Recorders == {"record_utterance", "_listen_loop", "record_until_silence",
              "interruption"}

\* a chunk is above the silence threshold or not
Chunks == {"loud", "quiet"}

\* the recorders that stop on silence
StopsOnSilence == {"record_until_silence", "interruption"}

\* the recorders whose stream is open while they take chunks; the interruption
\* recording takes what is left in barge_q after its stream was closed
StreamOpen == Recorders \ {"interruption"}

\* no file, and a file of some frames
NoArtifact == [written |-> FALSE, frames |-> <<>>]
Artifact(fs) == [written |-> TRUE, frames |-> fs]

\* a file is written whatever was captured: C16 fails for it
WriteAlways(fs) == Artifact(fs)

\* voice_loop.py 87-103 and archive/voice_loop.py 291-309: no frames, no file;
\* else the frames are concatenated and written
WriteWav(fs) == IF fs = <<>> THEN NoArtifact ELSE Artifact(fs)

\* AudioCapture.save_audio, which the interruption recording calls at line 436
\* and whose result line 438 tests
SaveAudio(fs) == IF fs = <<>> THEN NoArtifact ELSE Artifact(fs)

\* what the speech detector has buffered when the interruption recording
\* starts: nothing, or the chunk that crossed the threshold
Buffers == {<<>>, <<"loud">>}

\* what barge_q still holds then
Residues == {<<>>, <<"quiet">>, <<"loud", "quiet">>}

\* the outcomes of the silence test after a chunk was taken (lines 424-430):
\* a loud chunk resets the timer, after a quiet one the time may have run out
SilenceElapsed(r, chunk) ==
    IF r \in StopsOnSilence /\ chunk = "quiet" THEN BOOLEAN ELSE {FALSE}

\* the function is called
RecStart ==
    /\ rec_pc = "idle"
    /\ \E r \in Recorders :
        /\ recorder' = r
        /\ IF r = "interruption"
           THEN \E b \in Buffers, q \in Residues :
                    /\ frames' = b
                    /\ audio_queue' = q
           ELSE /\ frames' = <<>>
                /\ audio_queue' = <<>>
    /\ rec_pc' = "loop"
    /\ UNCHANGED <<stop_event, wav>>
    /\ UNCHANGED <<orchestrator, profiles, archive, later>>

\* the audio callback puts a chunk (voice_loop.py 68-71)
AudioCallback ==
    /\ rec_pc = "loop"
    /\ recorder \in StreamOpen
    /\ Len(frames) + Len(audio_queue) < MaxFrames
    /\ \E c \in Chunks : audio_queue' = Append(audio_queue, c)
    /\ UNCHANGED <<recorder, rec_pc, frames, stop_event, wav>>
    /\ UNCHANGED <<orchestrator, profiles, archive, later>>

\* Enter is pressed, stop_listening is called, shutdown is signalled
StopRecording ==
    /\ rec_pc = "loop"
    /\ ~stop_event
    /\ stop_event' = TRUE
    /\ UNCHANGED <<recorder, rec_pc, frames, audio_queue, wav>>
    /\ UNCHANGED <<orchestrator, profiles, archive, later>>

\* one pass of the loop that finds a chunk (voice_loop.py 79-84, orchestrator
\* 418-432)
TakeChunk ==
    /\ rec_pc = "loop"
    /\ ~stop_event
    /\ audio_queue # <<>>
    /\ frames' = Append(frames, Head(audio_queue))
    /\ audio_queue' = Tail(audio_queue)
    /\ \E elapsed \in SilenceElapsed(recorder, Head(audio_queue)) :
        rec_pc' = IF elapsed THEN "save" ELSE "loop"
    /\ UNCHANGED <<recorder, stop_event, wav>>
    /\ UNCHANGED <<orchestrator, profiles, archive, later>>

\* the loop test finds the stop condition
LoopExit ==
    /\ rec_pc = "loop"
    /\ stop_event
    /\ rec_pc' = "save"
    /\ UNCHANGED <<recorder, frames, audio_queue, stop_event, wav>>
    /\ UNCHANGED <<orchestrator, profiles, archive, later>>

\* archive/voice_loop.py 286-289: the stream raises, _listen_loop returns
StreamError ==
    /\ rec_pc = "loop"
    /\ recorder = "_listen_loop"
    /\ rec_pc' = "returned"
    /\ wav' = NoArtifact
    /\ UNCHANGED <<recorder, frames, audio_queue, stop_event>>
    /\ UNCHANGED <<orchestrator, profiles, archive, later>>

\* after the loop: the file is written, or not
SaveRecording ==
    /\ rec_pc = "save"
    /\ wav' = CASE recorder = "interruption" -> SaveAudio(frames)
                [] recorder = "record_until_silence" ->
                       IF RecordUntilSilence(frames # <<>>)
                       THEN Artifact(frames) ELSE NoArtifact
                [] OTHER -> WriteWav(frames)
    /\ rec_pc' = "returned"
    /\ UNCHANGED <<recorder, frames, audio_queue, stop_event>>
    /\ UNCHANGED <<orchestrator, profiles, archive, later>>

RecordNext ==
    \/ RecStart \/ AudioCallback \/ StopRecording \/ TakeChunk \/ LoopExit
    \/ StreamError \/ SaveRecording

RecordSpec == Init /\ [][RecordNext]_vars

Facts(m) == [shape |-> "object", map |-> m]
FactsText == [shape |-> "string", map |-> EmptyMap]
Interests(l) == [shape |-> "array", list |-> l]
InterestsNumber == [shape |-> "number", list |-> <<>>]

Object(n, f, i) == [kind |-> "object", name |-> n, facts |-> f, interests |-> i]
Failure(k) == [kind |-> k, name |-> Null, facts |-> Facts(EmptyMap),
               interests |-> Interests(<<>>)]

\* {"facts": {}, "interests": [], "name": null}
NoNews == Object(Null, Facts(EmptyMap), Interests(<<>>))

LyonAge == [city |-> "Lyon", age |-> "5"]
Paris == [city |-> "Paris"]
Seven == [age |-> "7"]

\* the responses of the extraction query
Responses ==
    { Failure("raises"), Failure("no_braces"), Failure("unparseable"),
      NoNews,
      Object("", Facts(EmptyMap), Interests(<<>>)),
      Object("Ann", Facts(EmptyMap), Interests(<<>>)),
      Object(Null, Facts(LyonAge), Interests(<<>>)),
      Object(Null, Facts(Paris), Interests(<<"chess">>)),
      Object("Bob", FactsText, Interests(<<>>)),
      Object(Null, Facts(Seven), InterestsNumber),
      Object(Null, Facts(EmptyMap), Interests(<<"chess", "go">>)) }

\* the profiles the file may hold when it is loaded
StoredProfiles ==
    { [name |-> n, facts |-> f, interests |-> i] :
        n \in {Null, "Ann"}, f \in {EmptyMap, LyonAge, Paris}, i \in {{}, {"chess"}} }

\* Python's truth value of a field: None, "", {} and [] are false
TruthyName(n) == n \notin {Null, ""}
TruthyFacts(f) == f.shape = "string" \/ DOMAIN f.map # {}
TruthyInterests(i) == i.shape = "number" \/ i.list # <<>>

\* the stored facts replaced by the new ones: C18 fails for it
ReplaceFacts(old, new) == new

\* manager.py 110-111: every key of new is assigned in old
MergeFacts(old, new) ==
    [k \in DOMAIN old \cup DOMAIN new |-> IF k \in DOMAIN new THEN new[k] ELSE old[k]]

\* UserProfile.update_interest for every element of the list (lines 114-115)
AddInterests(old, l) == old \cup {l[i] : i \in 1..Len(l)}

\* the name assigned whatever it is: C17 fails for it
ApplyNameAlways(p, r) == [p EXCEPT !.name = r.name]

\* lines 106-107
ApplyName(p, r) ==
    IF TruthyName(r.name) THEN [p EXCEPT !.name = r.name] ELSE p

\* lines 109-111, for facts that are an object
ApplyFacts(p, r) ==
    IF TruthyFacts(r.facts) THEN [p EXCEPT !.facts = MergeFacts(@, r.facts.map)] ELSE p

\* lines 113-115, for interests that are an array
ApplyInterests(p, r) ==
    IF TruthyInterests(r.interests)
    THEN [p EXCEPT !.interests = AddInterests(@, r.interests.list)]
    ELSE p

\* UserProfile.save_profile: the whole profile is written
SaveProfile(p) == p

\* lines 92-128: the profile and the file after the call.  A response that is
\* no object changes nothing (lines 122-128).  A string for facts raises at
\* line 110, after the name was assigned; a number for interests raises at
\* line 114, after name and facts were assigned; both are caught at line 126
\* and line 118 is not reached.
Extracted(p, f, r) ==
    IF r.kind # "object"
    THEN [data |-> p, file |-> f]
    ELSE IF r.facts.shape = "string"
    THEN [data |-> ApplyName(p, r), file |-> f]
    ELSE IF r.interests.shape = "number"
    THEN [data |-> ApplyFacts(ApplyName(p, r), r), file |-> f]
    ELSE [data |-> ApplyInterests(ApplyFacts(ApplyName(p, r), r), r),
          file |-> SaveProfile(ApplyInterests(ApplyFacts(ApplyName(p, r), r), r))]

\* the response handed back as it came
ReturnedRaw(r) == r

\* lines 119-128: the value returned.  The parsed object is returned when line
\* 119 is reached; the else branch (line 123) and the except clause (line 128)
\* return {"facts": {}, "interests": [], "name": None}
Returned(r) ==
    IF r.kind # "object" THEN NoNews
    ELSE IF r.facts.shape = "string" \/ r.interests.shape = "number" THEN NoNews
    ELSE r

\* the facts a response holds for the profile
ResponseFacts(r) ==
    IF r.kind = "object" /\ r.facts.shape = "object" THEN r.facts.map ELSE EmptyMap

\* extract_and_update_knowledge is called and the query gives r
ExtractAndUpdate ==
    /\ extractions < MaxExtractions
    /\ \E r \in Responses :
        /\ profile_data' = Extracted(profile_data, profile_file, r).data
        /\ profile_file' = Extracted(profile_data, profile_file, r).file
        /\ applied' = Append(applied, ResponseFacts(r))
        /\ last_response' = r
        /\ knowledge' = <<Returned(r)>>
    /\ extractions' = extractions + 1
    /\ UNCHANGED facts0
    /\ UNCHANGED <<orchestrator, recording, threads, archive, later>>

\* the updates server.py passes to update_knowledge; the ghosts facts0 and
\* applied start anew from the facts it leaves
Updates == { [facts |-> Seven], [name |-> "Ann"], [interests |-> {"go"}] }

\* manager.py 138-149: the keys of the update replace the profile's, the
\* profile is saved
UpdateKnowledge ==
    /\ \E u \in Updates :
        /\ profile_data' = [k \in DOMAIN profile_data |->
                               IF k \in DOMAIN u THEN u[k] ELSE profile_data[k]]
        /\ profile_file' = SaveProfile(profile_data')
    /\ facts0' = profile_data'.facts
    /\ applied' = <<>>
    /\ UNCHANGED <<extractions, last_response, knowledge>>
    /\ UNCHANGED <<orchestrator, recording, threads, archive, later>>

ProfileNext == ExtractAndUpdate \/ UpdateKnowledge

\* the profile is loaded from its file when the MemoryManager is constructed
ProfileInit ==
    /\ OrchestratorInit
    /\ RecordingInit
    /\ \E p \in StoredProfiles : ProfileLoaded(p)
    /\ AgentLoaded(DefaultHistoryTurns)
    /\ LaterInit

ProfileSpec == ProfileInit /\ [][ProfileNext]_vars

(***************************************************************************)
(* C17.                                                                    *)
(***************************************************************************)
\* the step is an extraction whose response is r
ExtractionOf(r) == extractions' = extractions + 1 /\ last_response' = r

\* C17: an extraction whose response is {"facts":{}, "interests":[],
\* "name":null} leaves name, facts and interests as they were and the file
\* holds that profile after the save; so does every further one.
C17_NoNewsIdempotent ==
    [][ExtractionOf(NoNews)
          => /\ profile_data'.name = profile_data.name
             /\ profile_data'.facts = profile_data.facts
             /\ profile_data'.interests = profile_data.interests
             /\ profile_file' = profile_data]_vars

\* the response came twice for a profile that holds a name, facts and an
\* interest
C17_Witness ==
    /\ extractions = 2
    /\ applied = <<EmptyMap, EmptyMap>>
    /\ last_response = NoNews
    /\ profile_data = [name |-> "Ann", facts |-> LyonAge, interests |-> {"chess"}]
    /\ profile_file = profile_data

(***************************************************************************)
(* C18.                                                                    *)
(***************************************************************************)
\* a overridden by b: the keys of b with b's values, the other keys of a with
\* a's values
Overridden(a, b) ==
    [k \in DOMAIN a \cup DOMAIN b |-> IF k \in DOMAIN b THEN b[k] ELSE a[k]]

\* facts0 overridden by the facts of the responses applied, in order
RECURSIVE OverriddenBy(_, _)
OverriddenBy(a, bs) ==
    IF bs = <<>> THEN a ELSE OverriddenBy(Overridden(a, Head(bs)), Tail(bs))

\* the last extraction reached save_profile
Saved ==
    /\ last_response.kind = "object"
    /\ last_response.facts.shape = "object"
    /\ last_response.interests.shape = "array"

\* C18: the facts of the profile are the facts before the extractions
\* overridden by the facts of each response in order, and the file holds them
\* when the last extraction saved.
C18_FactsMerged ==
    /\ profile_data.facts = OverriddenBy(facts0, applied)
    /\ (extractions > 0 /\ Saved) => profile_file.facts = OverriddenBy(facts0, applied)

\* {city: Lyon, age: 5} then {city: Paris} gave {city: Paris, age: 5}
C18_Witness ==
    /\ facts0 = EmptyMap
    /\ applied = <<LyonAge, Paris>>
    /\ profile_file.facts = [city |-> "Paris", age |-> "5"]

(***************************************************************************)
(* C19.                                                                    *)
(***************************************************************************)
\* run_loop takes the step of lines 208-225 with the pause label in
\* detected_wake_word and the shutdown flag unset
PauseDispatched ==
    /\ pc = "dispatch"
    /\ pc' # pc
    /\ ~shutdown_event
    /\ detected_wake_word # "None"
    /\ IsPauseWord(detected_wake_word)

\* C19: with the pause label reported for the cycle, the step after the wait
\* keeps the cycle in IDLE: it emits `idle` and nothing else, goes back to the
\* loop test, and leaves history and the transcript alone.
C19_PauseStaysIdle ==
    [][PauseDispatched
          => /\ pc' = "loop_check"
             /\ events' = Append(events, Ev("idle"))
             /\ history' = history
             /\ transcript' = transcript]_vars

(***************************************************************************)
(* C20.                                                                    *)
(***************************************************************************)
\* C20: the wake flag that trigger_wake set after the cycle's `idle`, with no
\* shutdown signalled, is still set after every step, so that the wait of
\* line 192 finds it and the cycle goes on to LISTENING.
C20_TriggerNotLost ==
    [][(triggered /\ wake_event /\ ~shutdown_event) => wake_event']_vars

(***************************************************************************)
(* The IDLE wait by itself (lines 171-225): the steps of run_loop up to the *)
(* branch of line 211, with update_config and the clock free of the budget  *)
(* that Spec puts on them.                                                  *)
(***************************************************************************)
\* a key that is absent reset to its default
SetConfigResets ==
    /\ Running
    /\ \E keys \in SUBSET ConfigKeys, s \in SilenceValues, p \in ProactivityValues :
        /\ silence_duration' =
               IF "silence_duration" \in keys THEN s ELSE DefaultSilence
        /\ proactivity_level' =
               IF "proactivity_level" \in keys THEN p ELSE DefaultProactivity
        /\ config_keys' = keys
    /\ UNCHANGED <<pc, shutdown_event, wake, clock, history, locals, audio, events,
                   ghost, lateShutdown, rare, marks>>
    /\ UNCHANGED apart

\* update_config, lines 114-121
SetConfig ==
    /\ Running
    /\ \E keys \in SUBSET ConfigKeys, s \in SilenceValues, p \in ProactivityValues :
        /\ silence_duration' =
               IF "silence_duration" \in keys THEN s ELSE silence_duration
        /\ proactivity_level' =
               IF "proactivity_level" \in keys THEN p ELSE proactivity_level
        /\ config_keys' = keys
    /\ UNCHANGED <<pc, shutdown_event, wake, clock, history, locals, audio, events,
                   ghost, lateShutdown, rare, marks>>
    /\ UNCHANGED apart

\* time.time() advances between two reads of line 197
ClockTick ==
    /\ pc = "wait_tick"
    /\ now < MaxTicks * TickSeconds
    /\ now' = now + TickSeconds
    /\ UNCHANGED <<pc, shutdown_event, wake, config, last_interaction_time, history,
                   locals, audio, events, ghost, lateShutdown, rare, marks>>
    /\ UNCHANGED apart

IdleNext ==
    \/ LoopCheck \/ EmitIdle \/ ClearWake \/ StartListener \/ WaitCheck
    \/ WaitTick \/ PostWaitCheck \/ Dispatch
    \/ Shutdown \/ TriggerWake \/ WakeCallback \/ SetConfig \/ ClockTick

IdleSpec == Init /\ [][IdleNext]_vars

(***************************************************************************)
(* C21.                                                                    *)
(***************************************************************************)
\* the step sets the proactive trigger
ProactiveFires == ~is_proactive_trigger /\ is_proactive_trigger'

\* the step starts the proactive turn (lines 211-216)
ProactiveTurnStarts == pc # "proactive" /\ pc' = "proactive"

\* C21: the proactive trigger is set only by a poll tick of the IDLE wait at
\* which the level is above 0 and at least 30 seconds have passed since the
\* last interaction, and a proactive turn starts only with the trigger set.
C21_ProactiveOnlyWhenArmed ==
    /\ [][ProactiveFires
            => /\ pc = "wait_tick"
               /\ proactivity_level > 0
               /\ now - last_interaction_time >= MinIdleSeconds]_vars
    /\ [][ProactiveTurnStarts => is_proactive_trigger]_vars

\* a proactive turn has started after the level was raised and 40 s passed
C21_Witness ==
    /\ pc = "proactive"
    /\ is_proactive_trigger
    /\ proactivity_level > 0
    /\ now - last_interaction_time > MinIdleSeconds

(***************************************************************************)
(* The two threads that write the profile.  run_loop runs in the thread     *)
(* that server.py line 188 starts, and calls extract_and_update_knowledge   *)
(* at line 336; the websocket handler of server.py runs in the server's     *)
(* thread and calls update_knowledge at line 146.  Here each call is taken  *)
(* one assignment at a time.                                                *)
(***************************************************************************)
\* what the steps below leave alone
ghosts == <<extractions, facts0, applied, knowledge>>

\* lines 94-103: the query returns; a response that is no object ends the call
ExtQuery ==
    /\ ext_pc = "idle"
    /\ extractions < MaxExtractions
    /\ \E r \in Responses :
        /\ last_response' = r
        /\ ext_pc' = IF r.kind = "object" THEN "name" ELSE "idle"
    /\ extractions' = extractions + 1
    /\ UNCHANGED <<profile_data, profile_file, facts0, applied, knowledge, ext_todo,
                   upd_pc, updates>>
    /\ UNCHANGED <<orchestrator, recording, archive, later>>

\* lines 106-109: the name; then facts that are a string raise at line 110
ExtName ==
    /\ ext_pc = "name"
    /\ profile_data' = ApplyName(profile_data, last_response)
    /\ IF last_response.facts.shape = "string"
       THEN ext_pc' = "idle" /\ ext_todo' = {}
       ELSE ext_pc' = "facts" /\ ext_todo' = DOMAIN last_response.facts.map
    /\ UNCHANGED <<profile_file, last_response, upd_pc, updates, ghosts>>
    /\ UNCHANGED <<orchestrator, recording, archive, later>>

\* line 111: one key is assigned in the facts the profile holds at that moment
ExtFact ==
    /\ ext_pc = "facts"
    /\ ext_todo # {}
    /\ \E k \in ext_todo :
        /\ profile_data' =
               [profile_data EXCEPT
                    !.facts = MergeFacts(@, [j \in {k} |-> last_response.facts.map[j]])]
        /\ ext_todo' = ext_todo \ {k}
    /\ UNCHANGED <<profile_file, last_response, ext_pc, upd_pc, updates, ghosts>>
    /\ UNCHANGED <<orchestrator, recording, archive, later>>

\* lines 113-115: the interests; a number raises at line 114
ExtInterests ==
    /\ ext_pc = "facts"
    /\ ext_todo = {}
    /\ IF last_response.interests.shape = "number"
       THEN ext_pc' = "idle" /\ UNCHANGED profile_data
       ELSE /\ ext_pc' = "save"
            /\ profile_data' = ApplyInterests(profile_data, last_response)
    /\ UNCHANGED <<profile_file, last_response, ext_todo, upd_pc, updates, ghosts>>
    /\ UNCHANGED <<orchestrator, recording, archive, later>>

\* line 118
ExtSave ==
    /\ ext_pc = "save"
    /\ profile_file' = SaveProfile(profile_data)
    /\ ext_pc' = "idle"
    /\ UNCHANGED <<profile_data, last_response, ext_todo, upd_pc, updates, ghosts>>
    /\ UNCHANGED <<orchestrator, recording, archive, later>>

\* server.py 142-146: update_knowledge is called
UpdCall ==
    /\ upd_pc = "idle"
    /\ \E u \in Updates : updates' = u
    /\ upd_pc' = "assign"
    /\ UNCHANGED <<profile_data, profile_file, last_response, ext_pc, ext_todo, ghosts>>
    /\ UNCHANGED <<orchestrator, recording, archive, later>>

\* manager.py 138-147
UpdAssign ==
    /\ upd_pc = "assign"
    /\ profile_data' = [k \in DOMAIN profile_data |->
                           IF k \in DOMAIN updates THEN updates[k] ELSE profile_data[k]]
    /\ upd_pc' = "save"
    /\ UNCHANGED <<profile_file, last_response, ext_pc, ext_todo, updates, ghosts>>
    /\ UNCHANGED <<orchestrator, recording, archive, later>>

\* manager.py 149
UpdSave ==
    /\ upd_pc = "save"
    /\ profile_file' = SaveProfile(profile_data)
    /\ upd_pc' = "idle"
    /\ UNCHANGED <<profile_data, last_response, ext_pc, ext_todo, updates, ghosts>>
    /\ UNCHANGED <<orchestrator, recording, archive, later>>

ThreadsNext ==
    \/ ExtQuery \/ ExtName \/ ExtFact \/ ExtInterests \/ ExtSave
    \/ UpdCall \/ UpdAssign \/ UpdSave

ThreadsSpec == ProfileInit /\ [][ThreadsNext]_vars

(***************************************************************************)
(* C22.                                                                    *)
(***************************************************************************)
\* the thread of run_loop is between the first assignment of an extraction
\* and its save
ExtractionWrites == ext_pc \in {"name", "facts", "save"}

\* the server's thread is between the assignment of update_knowledge and its
\* save
UpdateWrites == upd_pc \in {"assign", "save"}

\* C22: in no reachable state are the extraction of run_loop's thread and an
\* update_knowledge of another thread both in the middle of writing the
\* profile.
C22_SingleWriter == ~(ExtractionWrites /\ UpdateWrites)

(***************************************************************************)
(* C23.                                                                    *)
(***************************************************************************)
\* a capacity for the frame queue: any number below the chunks the callback
\* delivers while the consumer takes none
QueueCapacity == MaxFrames - 1

\* C23: the queue between the capture callback and its consumer never holds
\* more than QueueCapacity frames.
C23_QueueBounded == Len(audio_queue) <= QueueCapacity

(***************************************************************************)
(* C24.                                                                    *)
(***************************************************************************)
\* the step emits the next `idle` or `listening`, or run_loop ends
TransitionCompletes ==
    \/ /\ events' # events
       /\ events'[Len(events')].status \in {"idle", "listening"}
    \/ ~Terminated /\ Terminated'

\* C24: after a step that emits `idle` or `listening` or ends run_loop, no
\* wake listener and no speech detector runs on an open stream, and no
\* playback process runs.
C24_TornDown ==
    [][TransitionCompletes
          => /\ ~listener_running'
             /\ ~detector_running'
             /\ current_process' # "running"]_vars

(***************************************************************************)
(* C25.                                                                    *)
(***************************************************************************)
\* C25: run_loop ends only by returning, with the shutdown flag set or the
\* termination phrase in the transcript.
C25_EndsOnlyByShutdownOrGoodbye ==
    [][(~Terminated /\ Terminated')
          => /\ pc' = "done"
             /\ shutdown_event' \/ transcript' \in GoodbyeTranscripts]_vars

(***************************************************************************)
(* C26.                                                                    *)
(***************************************************************************)
\* the step is a recording of run_loop: the command (line 239) or the
\* interruption (lines 409-436)
RecordingTaken == pc \in {"record", "barge_record"} /\ pc' # pc

\* C26: every recording uses the silence duration that is configured when it
\* starts, which is the default or the value of the last update_config.
C26_ConfiguredSilenceUsed ==
    [][RecordingTaken => used_silence' = silence_duration]_vars

(***************************************************************************)
(* C27.                                                                    *)
(***************************************************************************)
\* the entries of s before the last one are (assistant tool call, system Tool
\* Output) pairs
PairsThenOne(s) ==
    /\ Len(s) % 2 = 1
    /\ \A i \in 1..(Len(s) - 1) :
        IF i % 2 = 1
        THEN s[i].role = "assistant" /\ s[i].text \in ToolCallReplies
        ELSE s[i].role = "system" /\ Head(s[i].text) = "Tool Output:"

\* C27: in a cycle whose turn has a final reply r, the entries the turn added
\* after its user entry are the pairs of its tool iterations and then one
\* entry, the assistant entry that carries r.
C27_FinalReplyOnce ==
    TurnHasFinalReply
        => /\ PairsThenOne(TurnEntries)
           /\ TurnEntries[Len(TurnEntries)] = Entry("assistant", reply.text)


\* ---- claim C28 ----------------------------------------------------------

\* query returned a reply in this step (lines 290-299)
ReplyReceived == pc = "tool_check" /\ queries' > queries /\ ~queryFailed'

\* the one reply whose braces hold an object with tool, arguments and a server
ServedCalls == {R_tool}

\* tool and arguments present, server absent
UnservedCalls == {R_toolNoServer}

ServerMissingPair(r) ==
    <<Entry("assistant", r),
      Entry("system", <<"Tool Output:", "Error: Server name missing.">>)>>

\* C28: call_tool is invoked only for a reply whose text from the first "{" to
\* the last "}" parses as an object with tool, arguments and a non-empty
\* server; a reply with tool and arguments but no server invokes nothing and
\* appends the observation "Error: Server name missing."; a reply that lacks
\* a key (or holds no parsable object) is taken as the final text.
C28_ToolCallDetection ==
    /\ [][tool_calls' > tool_calls
            => /\ ReplyReceived
               /\ reply'.text \in ServedCalls
               /\ tool_calls' = tool_calls + 1]_vars
    /\ [][(ReplyReceived /\ reply'.text \in UnservedCalls)
            => /\ tool_calls' = tool_calls
               /\ history' = history \o ServerMissingPair(reply'.text)
               /\ pc' = "tool_check"]_vars
    /\ [][(ReplyReceived /\ reply'.text \in NonToolReplies)
            => /\ tool_calls' = tool_calls
               /\ history' = Append(history, Entry("assistant", reply'.text))
               /\ pc' = "speak_check"]_vars

C28_Witness ==
    /\ tool_calls = 1
    /\ Len(TurnEntries) >= 5
    /\ TurnEntries[1] = Entry("assistant", R_tool)
    /\ SubSeq(TurnEntries, 3, 4) = ServerMissingPair(R_toolNoServer)
    /\ TurnEntries[5] = Entry("assistant", R_plain)


(***************************************************************************)
(* The archived voice loop: VoiceAgent._process_utterance keeps its own    *)
(* history and bounds it to MAX_HISTORY_TURNS entries.                     *)
(***************************************************************************)

\* what transcribe and query_ollama return there
AgentTranscripts == {<<"hello">>, <<"again">>}
AgentReplies == {R_plain, R_empty}

\* h[-n:] of a Python list: -0 is 0, and a start before the list is its start
LastSlice(h, n) ==
    IF n = 0 THEN h
    ELSE SubSeq(h, IF Len(h) > n THEN Len(h) - n + 1 ELSE 1, Len(h))

\* the bound applied at the wrong end
TrimNewest(h) ==
    IF MAX_HISTORY_TURNS # 0 /\ Len(h) > MAX_HISTORY_TURNS
    THEN SubSeq(h, 1, MAX_HISTORY_TURNS)
    ELSE h

\* lines 329-330
Trim(h) ==
    IF MAX_HISTORY_TURNS # 0 /\ Len(h) > MAX_HISTORY_TURNS
    THEN LastSlice(h, MAX_HISTORY_TURNS)
    ELSE h

\* transcribe returned "": back to idle, nothing kept
EmptyUtterance ==
    /\ processed < MaxUtterances
    /\ processed' = processed + 1
    /\ UNCHANGED <<agent_history, MAX_HISTORY_TURNS, untrimmed>>
    /\ UNCHANGED <<orchestrator, recording, profiles, later>>

\* transcribe or query_ollama raised: the except clause reports, nothing kept
ProcessingError ==
    /\ processed < MaxUtterances
    /\ processed' = processed + 1
    /\ UNCHANGED <<agent_history, MAX_HISTORY_TURNS, untrimmed>>
    /\ UNCHANGED <<orchestrator, recording, profiles, later>>

\* lines 327-330: both entries appended, then the bound applied
ProcessUtterance ==
    /\ processed < MaxUtterances
    /\ processed' = processed + 1
    /\ \E t \in AgentTranscripts, r \in AgentReplies :
        LET said == <<Entry("user", t), Entry("assistant", r)>>
        IN  /\ agent_history' = Trim(agent_history \o said)
            /\ untrimmed' = untrimmed \o said
    /\ UNCHANGED MAX_HISTORY_TURNS
    /\ UNCHANGED <<orchestrator, recording, profiles, later>>

ArchiveNext == EmptyUtterance \/ ProcessingError \/ ProcessUtterance

ArchiveInit ==
    /\ OrchestratorInit
    /\ RecordingInit
    /\ ProfileLoaded(NoProfile)
    /\ \E n \in 0..MaxKept : AgentLoaded(n)
    /\ LaterInit

ArchiveSpec == ArchiveInit /\ [][ArchiveNext]_vars

\* ---- claim C29 ----------------------------------------------------------

\* the last n entries of s, for n <= Len(s)
LastEntries(s, n) == [i \in 1..n |-> s[Len(s) - n + i]]

\* h2 is h with entries dropped from the oldest end and entries appended
DropsOldestAndAppends(h, h2) ==
    \E k \in 0..Len(h) :
        LET kept == Len(h) - k
        IN  /\ kept <= Len(h2)
            /\ \A i \in 1..kept : h2[i] = h[k + i]

\* C29: history changes only by appending at the end or by dropping from the
\* oldest end: the orchestrator's history only grows, the archived loop's
\* history keeps its retained entries in place behind the dropped ones, and
\* once more than N > 0 entries have been appended it is exactly the last N
\* of everything appended.
C29_AppendOrDropOldest ==
    /\ [][IsPrefix(history, history')]_vars
    /\ [][DropsOldestAndAppends(agent_history, agent_history')]_vars
    /\ [](agent_history =
            IF MAX_HISTORY_TURNS > 0 /\ Len(untrimmed) > MAX_HISTORY_TURNS
            THEN LastEntries(untrimmed, MAX_HISTORY_TURNS)
            ELSE untrimmed)

C29_Witness ==
    /\ MAX_HISTORY_TURNS = 3
    /\ Len(untrimmed) = 6
    /\ agent_history = LastEntries(untrimmed, 3)
    /\ agent_history[1].role = "assistant"
    /\ agent_history # SubSeq(untrimmed, 1, 3)


\* ---- claim C30 ----------------------------------------------------------

\* {facts: {}, interests: [], name: None}
EmptyResult ==
    [kind |-> "object", name |-> "None",
     facts |-> [shape |-> "object", map |-> <<>>],
     interests |-> [shape |-> "array", list |-> <<>>]]

FailureKinds == {"raises", "no_braces", "unparseable"}

\* a call of extract_and_update_knowledge whose query failed in one of the
\* three ways
ExtractionFails ==
    extractions' > extractions /\ last_response'.kind \in FailureKinds

\* run_loop's step that takes the final reply and runs the extraction
ExtractionRuns == pc = "tool_check" /\ knowledge_queries' > knowledge_queries

\* run_loop's step after it, for a reply that is not empty
SpeaksReply == pc = "speak_check" /\ pc' # pc /\ reply.bound /\ reply.text # <<>>

\* C30: an extraction whose query raises, or whose response has no braces or
\* does not parse, returns the empty result and leaves profile and file as
\* they were; the turn goes on from the extraction to the SPEAKING step, with
\* the final reply in history, and a non-empty reply is announced `speaking`.
C30_ExtractionFailureNotFatal ==
    /\ [][ExtractionFails
            => /\ knowledge' = <<EmptyResult>>
               /\ UNCHANGED <<profile_data, profile_file>>]_vars
    /\ [][ExtractionRuns
            => /\ pc' = "speak_check"
               /\ history' = Append(history, Entry("assistant", reply'.text))]_vars
    /\ [][SpeaksReply
            => /\ events' = Append(events, Ev("speaking"))
               /\ history' = Append(history, Entry("agent", reply.text))]_vars

\* a failed extraction after one that had changed the profile
C30_Witness ==
    /\ extractions = 2
    /\ last_response.kind = "unparseable"
    /\ knowledge = <<EmptyResult>>
    /\ profile_data.facts # facts0


\* ---- claim C31 ----------------------------------------------------------

\* C31: after every return of extract_and_update_knowledge or
\* update_knowledge, the failure returns included, the profile in memory
\* equals the profile in the file.
C31_ProfileFlushed == profile_data = profile_file


\* ---- claim C32 ----------------------------------------------------------

\* asr.transcribe returned the empty transcript in this step
EmptyTranscribed ==
    /\ pc = "transcribe"
    /\ pc' # pc
    /\ asrFailed' = asrFailed
    /\ transcript' = <<>>

TurnStatuses == {"transcript", "thinking", "speaking"}

\* C32: an empty transcript takes run_loop back to the top of its loop with
\* history, events and the count of model queries as they were, and up to the
\* transcription the cycle has appended nothing to history, made no query and
\* emitted no `transcript`, `thinking` or `speaking`.
C32_EmptyTranscriptIdle ==
    /\ [][EmptyTranscribed
            => /\ pc' = "loop_check"
               /\ UNCHANGED <<history, events, queries, knowledge_queries>>]_vars
    /\ [](pc = "transcribe"
            => /\ Len(history) = hist0
               /\ queries = 0
               /\ \A i \in 1..Len(events) : events[i].status \notin TurnStatuses)

\* the second cycle heard nothing after a first one that had a turn
C32_Witness ==
    /\ pc = "loop_check"
    /\ transcript = <<>>
    /\ asrFailed = "no"
    /\ cycles = 2
    /\ Len(history) = hist0
    /\ hist0 > 0
    /\ Len(events) > 1
    /\ queries = 0


\* ---- claim C33 ----------------------------------------------------------

\* where run_loop is in a turn, up to the end of the reply's playback
BeforeInterruption == {"proactive", "tool_check", "speak_check", "barge_wait"}
WithTranscript == {"tool_check", "speak_check", "barge_wait", "barge_record"}

IdlePrompt == <<"System:", "idle">>

\* C33: a turn started by the proactivity timer goes from the dispatch to the
\* turn with the fixed idle prompt as its transcript, emits no `listening`,
\* fails no transcription, and has taken no recording when its reply is
\* played.
C33_ProactiveSkipsRecording ==
    /\ [][(pc = "proactive" /\ pc' # pc)
            => /\ transcript' = IdlePrompt
               /\ pc' = "tool_check"
               /\ history' = Append(history, Entry("user", IdlePrompt))]_vars
    /\ []((is_proactive_trigger /\ pc \in BeforeInterruption \cup {"barge_record"})
            => /\ \A i \in 1..Len(events) : events[i].status # "listening"
               /\ asrFailed = "no")
    /\ []((is_proactive_trigger /\ pc \in BeforeInterruption) => used_silence = 0)
    /\ []((is_proactive_trigger /\ pc \in WithTranscript) => transcript = IdlePrompt)

C33_Witness ==
    /\ is_proactive_trigger
    /\ pc = "speak_check"
    /\ reply.bound
    /\ reply.text # <<>>
    /\ transcript = IdlePrompt
    /\ used_silence = 0
    /\ history[hist0 + 1] = Entry("user", IdlePrompt)


(***************************************************************************)
(* The context assembler: MemoryManager.get_relevant_context (manager.py   *)
(* 39-59) over the user profile, the memory store and the wall clock, with *)
(* add_interaction (25-37) and the clock changing them in between.         *)
(***************************************************************************)

\* what a turn is about, and what is asked of the store
Topics == {"chess", "go"}

\* an entry of the store: the topic of its text and its metadata's role
Memory(r, t) == [role |-> r, text |-> t]

\* the search without its limit
SearchAll(q, store, n) == SelectSeq(store, LAMBDA m : m.text = q)

\* vector_store.search_memory(query, n_results): the nearest entries, at most n
SearchMemory(q, store, n) ==
    LET hits == SelectSeq(store, LAMBDA m : m.text = q)
    IN  SubSeq(hits, 1, IF Len(hits) < n THEN Len(hits) ELSE n)

\* time.strftime("%A, %B %d, %Y %I:%M %p"): the clock to the minute
FormatTime(c) == c \div 2

\* lines 44-59: the three sections of the string; the memories section is
\* there when there are none
RelevantContext(q, profile, store, c) ==
    [time |-> FormatTime(c),
     profile |-> profile,
     memories |-> SearchMemory(q, store, n_results)]

\* orchestrator.py 330-331: add_interaction for the user and for the assistant
AddInteractions ==
    /\ Len(memory_store) < 2 * MaxTurnsStored
    /\ \E t \in Topics :
        memory_store' = memory_store \o <<Memory("user", t), Memory("assistant", t)>>
    /\ UNCHANGED <<wall_clock, contexts>>
    /\ UNCHANGED <<orchestrator, recording, profiles, archive, after_memory>>

\* time passes
WallClockTick ==
    /\ wall_clock < MaxClock
    /\ wall_clock' = wall_clock + 1
    /\ UNCHANGED <<memory_store, contexts>>
    /\ UNCHANGED <<orchestrator, recording, profiles, archive, after_memory>>

\* get_relevant_context(q) is called and returns
GetRelevantContext ==
    /\ Cardinality(contexts) < MaxCalls
    /\ \E q \in Topics :
        contexts' = contexts \cup
            { [query |-> q, profile |-> profile_data, store |-> memory_store,
               clock |-> wall_clock,
               out |-> RelevantContext(q, profile_data, memory_store, wall_clock)] }
    /\ UNCHANGED <<memory_store, wall_clock>>
    /\ UNCHANGED <<orchestrator, recording, profiles, archive, after_memory>>

ContextNext == AddInteractions \/ WallClockTick \/ GetRelevantContext

\* the profile is the one loaded from the file
ContextSpec == ProfileInit /\ [][ContextNext]_vars

\* ---- claim C34 ----------------------------------------------------------

Remove(s, c) ==
    LET i == CHOOSE j \in 1..Len(s) : s[j] = c /\ \A k \in 1..(j - 1) : s[k] # c
    IN  SubSeq(s, 1, i - 1) \o SubSeq(s, i + 1, Len(s))

\* websocket in active_connections
Registered(s, c) == \E j \in 1..Len(s) : s[j] = c

\* ConnectionManager.disconnect, lines 33-36
ManagerDisconnect(s, c) == IF Registered(s, c) THEN Remove(s, c) ELSE s

\* lines 180-189: a new orchestrator and its thread
StartAgent ==
    /\ handler_pc = "idle"
    /\ ~orchestrator_running
    /\ srv_orchestrator < MaxStarts
    /\ srv_orchestrator' = srv_orchestrator + 1
    /\ alive' = alive \cup {srv_orchestrator + 1}
    /\ handler_pc' = "starting"
    /\ UNCHANGED <<orchestrator_running, connections>>
    /\ UNCHANGED <<orchestrator, recording, profiles, archive, memory, after_server>>

\* line 190
StartAgentFlag ==
    /\ handler_pc = "starting"
    /\ orchestrator_running' = TRUE
    /\ handler_pc' = "idle"
    /\ UNCHANGED <<srv_orchestrator, alive, connections>>
    /\ UNCHANGED <<orchestrator, recording, profiles, archive, memory, after_server>>

\* lines 201-206: shutdown_event set, join(timeout=5) returns with the thread
\* ended or still alive, the flag is cleared
StopAgent ==
    /\ handler_pc = "idle"
    /\ orchestrator_running
    /\ \E ended \in BOOLEAN :
        alive' = IF ended THEN alive \ {srv_orchestrator} ELSE alive
    /\ orchestrator_running' = FALSE
    /\ UNCHANGED <<srv_orchestrator, handler_pc, connections>>
    /\ UNCHANGED <<orchestrator, recording, profiles, archive, memory, after_server>>

\* lines 80-86: orchestrator.run() of instance n returns or raises, the
\* finally clause clears the flag
ThreadExits ==
    /\ \E n \in alive : alive' = alive \ {n}
    /\ orchestrator_running' = FALSE
    /\ UNCHANGED <<srv_orchestrator, handler_pc, connections>>
    /\ UNCHANGED <<orchestrator, recording, profiles, archive, memory, after_server>>

\* line 113: manager.connect
Accept ==
    /\ handler_pc = "idle"
    /\ \E c \in Clients :
        /\ conn[c] = "new"
        /\ active_connections' = Append(active_connections, c)
        /\ conn' = [conn EXCEPT ![c] = "greeting"]
    /\ UNCHANGED <<agent, bc_todo, bc_pc, bc_raised>>
    /\ UNCHANGED <<orchestrator, recording, profiles, archive, memory, after_server>>

\* lines 116-124 and 222-224: orchestrator.memory_manager raises
\* AttributeError while orchestrator is None, and the handler disconnects
Greet ==
    /\ handler_pc = "idle"
    /\ \E c \in Clients :
        /\ conn[c] = "greeting"
        /\ IF srv_orchestrator = 0
           THEN /\ active_connections' = ManagerDisconnect(active_connections, c)
                /\ conn' = [conn EXCEPT ![c] = "rejected"]
           ELSE /\ conn' = [conn EXCEPT ![c] = "open"]
                /\ UNCHANGED active_connections
    /\ UNCHANGED <<agent, bc_todo, bc_pc, bc_raised>>
    /\ UNCHANGED <<orchestrator, recording, profiles, archive, memory, after_server>>

\* lines 128 and 219-221: receive_text raises WebSocketDisconnect
Disconnect ==
    /\ handler_pc = "idle"
    /\ \E c \in Clients :
        /\ conn[c] = "open"
        /\ active_connections' = ManagerDisconnect(active_connections, c)
        /\ conn' = [conn EXCEPT ![c] = "closed"]
    /\ UNCHANGED <<agent, bc_todo, bc_pc, bc_raised>>
    /\ UNCHANGED <<orchestrator, recording, profiles, archive, memory, after_server>>

\* line 39: broadcast starts on a copy of the list; every caller (lines 69,
\* 149, 192, 207) runs after an orchestrator was created
BroadcastBegin ==
    /\ handler_pc = "idle"
    /\ srv_orchestrator > 0
    /\ bc_pc = "idle"
    /\ bc_todo = <<>>
    /\ active_connections # <<>>
    /\ bc_todo' = active_connections
    /\ bc_raised' = FALSE
    /\ UNCHANGED <<agent, conn, active_connections, bc_pc>>
    /\ UNCHANGED <<orchestrator, recording, profiles, archive, memory, after_server>>

\* line 41: await connection.send_json
BroadcastAwait ==
    /\ handler_pc = "idle"
    /\ bc_pc = "idle"
    /\ bc_todo # <<>>
    /\ bc_pc' = "sending"
    /\ UNCHANGED <<agent, conn, active_connections, bc_todo, bc_raised>>
    /\ UNCHANGED <<orchestrator, recording, profiles, archive, memory, after_server>>

\* a send to a connection that is gone fails; another send may fail
SendFails(c) == IF conn[c] \in {"closed", "rejected"} THEN {TRUE} ELSE BOOLEAN

\* lines 41-44: the send returns, or raises and the connection is removed;
\* list.remove raises ValueError for a connection that is not in the list
BroadcastSent ==
    /\ handler_pc = "idle"
    /\ bc_pc = "sending"
    /\ bc_pc' = "idle"
    /\ \E failed \in SendFails(Head(bc_todo)) :
        IF ~failed
        THEN /\ bc_todo' = Tail(bc_todo)
             /\ UNCHANGED <<active_connections, bc_raised>>
        ELSE IF Registered(active_connections, Head(bc_todo))
        THEN /\ active_connections' = Remove(active_connections, Head(bc_todo))
             /\ bc_todo' = Tail(bc_todo)
             /\ UNCHANGED bc_raised
        ELSE /\ bc_raised' = TRUE
             /\ bc_todo' = <<>>
             /\ UNCHANGED active_connections
    /\ UNCHANGED <<agent, conn>>
    /\ UNCHANGED <<orchestrator, recording, profiles, archive, memory, after_server>>

ServerNext ==
    \/ StartAgent \/ StartAgentFlag \/ StopAgent \/ ThreadExits
    \/ Accept \/ Greet \/ Disconnect
    \/ BroadcastBegin \/ BroadcastAwait \/ BroadcastSent

ServerSpec == Init /\ [][ServerNext]_vars

\* ---- claim C35 ----------------------------------------------------------

\* C35: at most one orchestrator thread is alive at any time.
C35_OneOrchestratorThread == Cardinality(alive) <= 1

\* ---- claim C36 ----------------------------------------------------------

\* C36: with no handler between the thread's start and the flag, and no
\* orchestrator thread left, orchestrator_running is false.
C36_FlagFollowsThread ==
    (handler_pc = "idle" /\ alive = {}) => ~orchestrator_running

\* ---- claim C37 ----------------------------------------------------------

\* C37: a client that connects stays connected and registered until it
\* disconnects itself: the server never drops it.
C37_ClientStays == \A c \in Clients : conn[c] # "rejected"

\* ---- claim C38 ----------------------------------------------------------

\* C38: broadcast never ends by an exception.
C38_BroadcastNeverRaises == ~bc_raised


(***************************************************************************)
(* The archived VoiceAgent: start_listening and stop_listening             *)
(* (archive/voice_loop.py 244-262), called from the server's thread, and   *)
(* the listen threads they start (_listen_loop 264-311, _process_utterance *)
(* 313-339).  join(timeout=1.0) returns whether or not the thread ended,   *)
(* so the thread's steps are free to come before or after it.              *)
(***************************************************************************)

\* the threads that record or process
Listening == {i \in 1..Len(listen_state) : listen_state[i] = "recording"}
Processing == {i \in 1..Len(listen_state) : listen_state[i] = "processing"}

\* lines 244-252; a call while is_listening returns at once
StartListening ==
    /\ ~is_listening
    /\ Len(listen_state) < MaxListens
    /\ is_listening' = TRUE
    /\ agent_stop_event' = FALSE
    /\ listen_state' = Append(listen_state, "recording")
    /\ UNCHANGED <<orchestrator, recording, profiles, archive, memory, server>>

\* lines 254-262
StopListening ==
    /\ is_listening
    /\ is_listening' = FALSE
    /\ agent_stop_event' = TRUE
    /\ UNCHANGED listen_state
    /\ UNCHANGED <<orchestrator, recording, profiles, archive, memory, server>>

\* lines 282-311: the loop sees stop_event set; with frames the thread goes
\* on to _process_utterance, without it returns
RecordingStops ==
    /\ agent_stop_event
    /\ \E i \in Listening, heard \in BOOLEAN :
        listen_state' =
            [listen_state EXCEPT ![i] = IF heard THEN "processing" ELSE "ended"]
    /\ UNCHANGED <<is_listening, agent_stop_event>>
    /\ UNCHANGED <<orchestrator, recording, profiles, archive, memory, server>>

\* lines 288-291: the input stream raises, the thread returns
RecordingFails ==
    /\ \E i \in Listening : listen_state' = [listen_state EXCEPT ![i] = "ended"]
    /\ UNCHANGED <<is_listening, agent_stop_event>>
    /\ UNCHANGED <<orchestrator, recording, profiles, archive, memory, server>>

\* lines 313-339: the utterance is transcribed and answered, history gets
\* both entries and is trimmed; or nothing was heard, or a step raised
UtteranceProcessed ==
    /\ \E i \in Processing :
        listen_state' = [listen_state EXCEPT ![i] = "ended"]
    /\ \/ \E t \in AgentTranscripts :
            LET said == <<Entry("user", t), Entry("assistant", R_plain)>>
            IN  /\ agent_history' = Trim(agent_history \o said)
                /\ untrimmed' = untrimmed \o said
       \/ UNCHANGED <<agent_history, untrimmed>>
    /\ UNCHANGED <<MAX_HISTORY_TURNS, processed, is_listening, agent_stop_event>>
    /\ UNCHANGED <<orchestrator, recording, profiles, memory, server>>

ListenNext ==
    \/ StartListening \/ StopListening
    \/ RecordingStops \/ RecordingFails \/ UtteranceProcessed

ListenSpec == Init /\ [][ListenNext]_vars

\* ---- claim C39 ----------------------------------------------------------

\* C39: at most one listen thread is recording or processing at any time.
C39_OneListenThread == Cardinality(Listening \cup Processing) <= 1


\* ---- claim C40 ----------------------------------------------------------

\* a step that is, or may be, a call of update_config
ConfigTouched ==
    \/ silence_duration' # silence_duration
    \/ proactivity_level' # proactivity_level
    \/ config_keys' # config_keys

\* C40: silence_duration changes only in a call that carries the key
\* `silence_duration`, proactivity_level only in one that carries
\* `proactivity_level`, and a call changes neither history, nor the shutdown
\* flag, nor the wake event, nor last_interaction_time.
C40_ConfigOnlyKeysPresent ==
    /\ [][silence_duration' # silence_duration
            => "silence_duration" \in config_keys']_vars
    /\ [][proactivity_level' # proactivity_level
            => "proactivity_level" \in config_keys']_vars
    /\ [][ConfigTouched
            => UNCHANGED <<history, shutdown_event, wake_event,
                           last_interaction_time, pc>>]_vars

\* a call with proactivity_level alone has raised the level and left the
\* silence at its default
C40_Witness ==
    /\ config_keys = {"proactivity_level"}
    /\ proactivity_level = 100
    /\ silence_duration = DefaultSilence

====
